---- MODULE Spec2Model ----
(***************************************************************************)
(* Model of the CV generation scripts of neoslusion/my_cv:                 *)
(*   src/tool/update_html_from_dox.py  (DOX -> sections of index.html)     *)
(*   src/tool/build_sidebar_cv.py      (DOX -> LaTeX -> PDF)               *)
(*                                                                         *)
(* Text is modelled as a sequence of tokens.  A token is one character     *)
(* ("d", "\\", "(", ",", ...) or one indivisible piece of markup (a marker *)
(* comment of index.html, a header line of the DOX file).                  *)
(***************************************************************************)
EXTENDS Integers, Sequences, FiniteSets, TLC

VARIABLES
    \* ---- update_html_from_dox.main ----
    dox_exists,     \* DOX_FILE.exists()
    html_exists,    \* HTML_FILE.exists()
    present,        \* per section of main(): is there something to render
    frags,          \* per section of main(): the fragment its builder renders
    html_file,      \* content of HTML_FILE on disk
    html,           \* the local `html` of main()
    pc,             \* position of main(); "raised" after an uncaught exception
    k,              \* index in MainOrder of the next section of main()
    ret,            \* exit status of the script, -1 while it runs
    warned,         \* sections whose "markers not found" warning was printed
    run,            \* number of the current run of the script
    prev_out,       \* HTML_FILE as the previous run left it
    \* ---- build_sidebar_cv.main ----
    build_dox_exists,   \* DOX_FILE.exists()
    template_exists,    \* TEMPLATE_FILE.exists()
    build_pc,           \* position of main(); "raised" after an uncaught exception
    pass_i,             \* the `i` of `for i in range(2)`
    returncodes,        \* result.returncode of every pdflatex invocation so far
    cv_pdf,             \* tmpdir/cv.pdf exists
    cv_log,             \* tmpdir/cv.log exists
    printed,            \* what main() printed about the compilation
    tmpdir,             \* the temporary directory: "none", "exists", "removed"
    output_pdf,         \* OUTPUT_PDF: "absent", "stale" (an earlier run's) or "written"
    build_ret,          \* exit status of the script, -1 while it runs
    \* ---- extract_sections (both scripts) ----
    text,               \* the DOX document
    sections_html,      \* what update_html_from_dox.extract_sections returns
    sections_pdf,       \* what build_sidebar_cv.extract_sections returns
    extract_pc,
    \* ---- build_contact_info (HTML) and extract_contact (LaTeX) ----
    parts,              \* the stripped, non-empty tokens of the contact line
    items,              \* the sorted `items` of build_contact_info
    contact_lines,      \* the `lines` of extract_contact
    contact_pc,
    \* ---- split_skills (HTML) and the re.split of build_skills (LaTeX) ----
    vals,               \* the text after "<b>Category</b>:" of a skill line
    html_tags,          \* split_skills(vals)
    latex_tags,         \* vals_list of build_sidebar_cv.build_skills
    split_pc,
    \* ---- build_skills (both scripts) ----
    skill_lines,        \* the lines of the skills section body
    html_skills,        \* what update_html_from_dox.build_skills renders
    latex_skills,       \* what build_sidebar_cv.build_skills renders
    skills_pc,
    \* ---- update_html_from_dox.build_education ----
    edu_lines,          \* the lines of the education section body
    edu_i,              \* index of the line the loop is at
    university_name,
    university_location,
    degrees,            \* list of (degree, dates, gpa)
    current_degree,     \* <<>> stands for None
    current_dates,
    current_gpa,
    edu_html,           \* what build_education renders
    edu_pc,
    \* ---- build_languages and build_certifications (both scripts) ----
    list_lines,         \* the lines of the section body
    html_languages,     \* what update_html_from_dox.build_languages renders
    latex_languages,    \* what build_sidebar_cv.build_languages renders
    html_certifications,    \* what update_html_from_dox.build_certifications renders
    latex_certifications,   \* what build_sidebar_cv.build_certifications renders
    lang_pc,
    cert_pc,
    \* ---- build_sidebar_cv.build_experience ----
    exp_lines,          \* the lines of the experience section body
    exp_entries,        \* the `entries` of build_experience
    exp_pc,
    \* ---- update_html_from_dox.build_work ----
    work_lines,         \* the lines of the experience section body
    work_i,             \* index of the line the loop is at
    company_name,
    company_location,
    current_position,
    projects,           \* list of project dicts
    current_project,    \* <<>> stands for None
    current_section,    \* <<>> stands for None
    current_category,   \* <<>> stands for None
    work_divs,          \* the `divs` of build_work, or the "nothing parsed" fragment
    work_pc,
    \* ---- build_sidebar_cv.build_education ----
    edul_lines,         \* the lines of the education section body
    edul_entries,       \* the `entries` of build_education
    edul_pc

htmlVars == <<dox_exists, html_exists, present, frags, html_file, html, pc, k,
              ret, warned, run, prev_out>>

buildVars == <<build_dox_exists, template_exists, build_pc, pass_i, returncodes,
               cv_pdf, cv_log, printed, tmpdir, output_pdf, build_ret>>

extractVars == <<text, sections_html, sections_pdf, extract_pc>>

contactVars == <<parts, items, contact_lines, contact_pc>>

splitVars == <<vals, html_tags, latex_tags, split_pc>>

skillsVars == <<skill_lines, html_skills, latex_skills, skills_pc>>

eduVars == <<edu_lines, edu_i, university_name, university_location, degrees,
             current_degree, current_dates, current_gpa, edu_html, edu_pc>>

listsVars == <<list_lines, html_languages, latex_languages,
               html_certifications, latex_certifications, lang_pc, cert_pc>>

expVars == <<exp_lines, exp_entries, exp_pc>>

workVars == <<work_lines, work_i, company_name, company_location,
              current_position, projects, current_project, current_section,
              current_category, work_divs, work_pc>>

eduLatexVars == <<edul_lines, edul_entries, edul_pc>>

vars == <<htmlVars, buildVars, extractVars, contactVars, splitVars,
         skillsVars, eduVars, listsVars, expVars, workVars, eduLatexVars>>

notHtml == <<buildVars, extractVars, contactVars, splitVars, skillsVars,
              eduVars, listsVars, expVars, workVars, eduLatexVars>>
notBuild == <<htmlVars, extractVars, contactVars, splitVars, skillsVars,
               eduVars, listsVars, expVars, workVars, eduLatexVars>>
notExtract == <<htmlVars, buildVars, contactVars, splitVars, skillsVars,
                 eduVars, listsVars, expVars, workVars, eduLatexVars>>
notContact == <<htmlVars, buildVars, extractVars, splitVars, skillsVars,
                 eduVars, listsVars, expVars, workVars, eduLatexVars>>
notSplit == <<htmlVars, buildVars, extractVars, contactVars, skillsVars,
               eduVars, listsVars, expVars, workVars, eduLatexVars>>
notSkills == <<htmlVars, buildVars, extractVars, contactVars, splitVars,
                eduVars, listsVars, expVars, workVars, eduLatexVars>>
notEdu == <<htmlVars, buildVars, extractVars, contactVars, splitVars,
             skillsVars, listsVars, expVars, workVars, eduLatexVars>>
notLists == <<htmlVars, buildVars, extractVars, contactVars, splitVars,
               skillsVars, eduVars, expVars, workVars, eduLatexVars>>
notExp == <<htmlVars, buildVars, extractVars, contactVars, splitVars,
             skillsVars, eduVars, listsVars, workVars, eduLatexVars>>
notWork == <<htmlVars, buildVars, extractVars, contactVars, splitVars,
              skillsVars, eduVars, listsVars, expVars, eduLatexVars>>
notEduLatex == <<htmlVars, buildVars, extractVars, contactVars, splitVars,
                  skillsVars, eduVars, listsVars, expVars, workVars>>

-----------------------------------------------------------------------------
(* Bounds of the model *)

NumSections == 2
MaxHtmlLen == 3
MaxFragLen == 2
MaxRuns == 2
MaxExitCode == 3
MaxDocLen == 4
MaxParts == 2
MaxValsLen == 5
MaxSkillLines == 2
MaxEduLines == 3
MaxListLines == 2
MaxExpLines == 3
MaxWorkLines == 4
MaxEduLatexLines == 3

-----------------------------------------------------------------------------
(* Generic helpers on token sequences *)

SeqsUpTo(S, n) == UNION {[1..m -> S] : m \in 0..n}

\* str.find from a position: least index >= from holding tok, 0 if none
IndexFrom(s, tok, from) ==
    IF \E i \in from..Len(s) : s[i] = tok
    THEN CHOOSE i \in from..Len(s) :
            /\ s[i] = tok
            /\ \A j \in from..(i - 1) : s[j] # tok
    ELSE 0

-----------------------------------------------------------------------------
(* update_html_from_dox.py: markers, replace_block, main *)

MainOrder == <<"contact_info", "summary", "skills", "certifications",
               "languages", "education", "work_experience">>

MARKERS ==
    [contact_info    |-> <<"<!-- CONTACT_INFO_START -->", "<!-- CONTACT_INFO_END -->">>,
     summary         |-> <<"<!-- SUMMARY_START -->", "<!-- SUMMARY_END -->">>,
     skills          |-> <<"<!-- SKILLS_START -->", "<!-- SKILLS_END -->">>,
     certifications  |-> <<"<!-- CERTIFICATIONS_START -->", "<!-- CERTIFICATIONS_END -->">>,
     languages       |-> <<"<!-- LANGUAGES_START -->", "<!-- LANGUAGES_END -->">>,
     education       |-> <<"<!-- EDUCATION_START -->", "<!-- EDUCATION_END -->">>,
     work_experience |-> <<"<!-- WORK_EXPERIENCE_START -->", "<!-- WORK_EXPERIENCE_END -->">>]

\* the sections of main() the model runs: the first NumSections of MainOrder
Secs == 1..NumSections
StartOf(i) == MARKERS[MainOrder[i]][1]
EndOf(i) == MARKERS[MainOrder[i]][2]
MarkerTokens == {StartOf(i) : i \in Secs} \cup {EndOf(i) : i \in Secs}

\* characters of the texts: a letter that is no escape of a replacement
\* template, the backslash, the newline
HtmlChars == {"d", "\n"}
FragChars == {"d", "\\"}
HtmlTexts == SeqsUpTo(MarkerTokens \cup HtmlChars, MaxHtmlLen)
Fragments == SeqsUpTo({EndOf(i) : i \in Secs} \cup FragChars, MaxFragLen)

\* ASCII letters that re's replacement template rejects after a backslash
BadEscapeLetters == {"d"}

\* re's parse of the replacement template raises re.error ("bad escape")
RECURSIVE TemplateError(_)
TemplateError(r) ==
    IF Len(r) < 2 THEN FALSE
    ELSE IF Head(r) = "\\"
         THEN \/ r[2] \in BadEscapeLetters
              \/ TemplateError(SubSeq(r, 3, Len(r)))
         ELSE TemplateError(Tail(r))

\* what pattern.sub substitutes for the replacement template r
RECURSIVE ExpandTemplate(_)
ExpandTemplate(r) ==
    IF r = <<>> THEN <<>>
    ELSE IF Head(r) = "\\" /\ Len(r) >= 2
         THEN (IF r[2] = "\\" THEN <<"\\">>
               ELSE IF r[2] = "n" THEN <<"\n">>
               ELSE <<"\\", r[2]>>)
              \o ExpandTemplate(SubSeq(r, 3, Len(r)))
         ELSE <<Head(r)>> \o ExpandTemplate(Tail(r))

\* start of the leftmost match of  start.*?end  (DOTALL), 0 if none
MatchStart(h, start, end) ==
    LET i == IndexFrom(h, start, 1)
    IN IF i # 0 /\ IndexFrom(h, end, i + 1) # 0 THEN i ELSE 0

\* index of the end marker that closes the leftmost match
MatchEnd(h, start, end) == IndexFrom(h, end, MatchStart(h, start, end) + 1)

Replacement(start, end, new_inner) == <<start, "\n">> \o new_inner \o <<"\n", end>>

\* the value replace_block returns when it returns
replace_block(h, start, end, new_inner) ==
    IF MatchStart(h, start, end) = 0
    THEN h
    ELSE SubSeq(h, 1, MatchStart(h, start, end) - 1)
         \o ExpandTemplate(Replacement(start, end, new_inner))
         \o SubSeq(h, MatchEnd(h, start, end) + 1, Len(h))

\* replace_block raises instead of returning
replace_block_raises(h, start, end, new_inner) ==
    /\ MatchStart(h, start, end) # 0
    /\ TemplateError(Replacement(start, end, new_inner))

EndsWithNewline(h) == Len(h) > 0 /\ h[Len(h)] = "\n"

HtmlIdle ==
    /\ dox_exists = FALSE
    /\ html_exists = FALSE
    /\ present = <<>>
    /\ frags = <<>>
    /\ html_file = <<>>
    /\ html = <<>>
    /\ pc = "idle"
    /\ k = 1
    /\ ret = -1
    /\ warned = {}
    /\ run = 1
    /\ prev_out = <<>>

InitHtml ==
    /\ dox_exists \in BOOLEAN
    /\ html_exists \in BOOLEAN
    /\ present \in [Secs -> BOOLEAN]
    /\ frags \in [Secs -> Fragments]
    /\ \A i \in Secs : ~present[i] => frags[i] = <<>>
    /\ html_file \in HtmlTexts
    /\ ~html_exists => html_file = <<>>
    /\ ~dox_exists => \A i \in Secs : ~present[i]
    /\ html = <<>>
    /\ pc = "start"
    /\ k = 1
    /\ ret = -1
    /\ warned = {}
    /\ run = 1
    /\ prev_out = <<>>

\* lines 441-450: the two existence checks, then the files are read
MainStart ==
    /\ pc = "start"
    /\ IF ~dox_exists \/ ~html_exists
       THEN /\ ret' = 1
            /\ pc' = "done"
            /\ UNCHANGED html
       ELSE /\ html' = html_file
            /\ pc' = "sections"
            /\ UNCHANGED ret
    /\ k' = 1
    /\ warned' = {}
    /\ UNCHANGED <<dox_exists, html_exists, present, frags, html_file, run, prev_out>>
    /\ UNCHANGED notHtml

\* lines 452-479: one `if <section present>: html = replace_block(...)`
MainSection ==
    /\ pc = "sections"
    /\ k <= NumSections
    /\ IF ~present[k]
       THEN /\ k' = k + 1
            /\ UNCHANGED <<html, pc, ret, warned>>
       ELSE IF replace_block_raises(html, StartOf(k), EndOf(k), frags[k])
       THEN /\ ret' = 1
            /\ pc' = "raised"
            /\ UNCHANGED <<html, k, warned>>
       ELSE /\ html' = replace_block(html, StartOf(k), EndOf(k), frags[k])
            /\ warned' = IF MatchStart(html, StartOf(k), EndOf(k)) = 0
                         THEN warned \cup {k} ELSE warned
            /\ k' = k + 1
            /\ UNCHANGED <<pc, ret>>
    /\ UNCHANGED <<dox_exists, html_exists, present, frags, html_file, run, prev_out>>
    /\ UNCHANGED notHtml

\* lines 481-483: write the file with a trailing newline, return 0
MainWrite ==
    /\ pc = "sections"
    /\ k > NumSections
    /\ html_file' = html \o (IF EndsWithNewline(html) THEN <<>> ELSE <<"\n">>)
    /\ ret' = 0
    /\ pc' = "done"
    /\ UNCHANGED <<dox_exists, html_exists, present, frags, html, k, warned, run, prev_out>>
    /\ UNCHANGED notHtml

\* the script is run again on the file it wrote, the DOX source unchanged
Rerun ==
    /\ pc = "done"
    /\ ret = 0
    /\ run < MaxRuns
    /\ run' = run + 1
    /\ prev_out' = html_file
    /\ pc' = "start"
    /\ ret' = -1
    /\ UNCHANGED <<dox_exists, html_exists, present, frags, html_file, html, k, warned>>
    /\ UNCHANGED notHtml

NextHtml == MainStart \/ MainSection \/ MainWrite \/ Rerun

-----------------------------------------------------------------------------
(* build_sidebar_cv.py: main, the pdflatex passes and the temporary directory *)

ExitCodes == 0..MaxExitCode

BuildIdle ==
    /\ build_dox_exists = FALSE
    /\ template_exists = FALSE
    /\ build_pc = "idle"
    /\ pass_i = 0
    /\ returncodes = <<>>
    /\ cv_pdf = FALSE
    /\ cv_log = FALSE
    /\ printed = <<>>
    /\ tmpdir = "none"
    /\ output_pdf = "absent"
    /\ build_ret = -1

InitBuild ==
    /\ build_dox_exists \in BOOLEAN
    /\ template_exists \in BOOLEAN
    /\ build_pc = "start"
    /\ pass_i = 0
    /\ returncodes = <<>>
    /\ cv_pdf = FALSE
    /\ cv_log = FALSE
    /\ printed = <<>>
    /\ tmpdir = "none"
    /\ output_pdf \in {"absent", "stale"}
    /\ build_ret = -1

\* mutant of CompileFailed: only a negative status counts as a failure
CompileFailedNegative(rc) == rc < 0

\* `if result.returncode != 0` (line 353)
CompileFailed(rc) == rc # 0

\* mutant of ReturnFromWith: the return leaves the directory behind
ReturnKeepingTmpdir(r) ==
    /\ tmpdir' = tmpdir
    /\ build_ret' = r
    /\ build_pc' = "done"

\* a `return r` inside the `with tempfile.TemporaryDirectory()` block: the
\* context manager removes the directory on the way out
ReturnFromWith(r) ==
    /\ tmpdir' = "removed"
    /\ build_ret' = r
    /\ build_pc' = "done"

\* lines 299-336: the existence checks; then the DOX file is parsed and the
\* template filled
BuildStart ==
    /\ build_pc = "start"
    /\ IF ~build_dox_exists \/ ~template_exists
       THEN /\ build_ret' = 1
            /\ build_pc' = "done"
       ELSE /\ build_pc' = "filled"
            /\ UNCHANGED build_ret
    /\ UNCHANGED <<build_dox_exists, template_exists, pass_i, returncodes, cv_pdf,
                   cv_log, printed, tmpdir, output_pdf>>
    /\ UNCHANGED notBuild

\* lines 339-344: the temporary directory is created and cv.tex written
EnterTmpdir ==
    /\ build_pc = "filled"
    /\ tmpdir' = "exists"
    /\ pass_i' = 0
    /\ build_pc' = "compile"
    /\ UNCHANGED <<build_dox_exists, template_exists, returncodes, cv_pdf, cv_log,
                   printed, output_pdf, build_ret>>
    /\ UNCHANGED notBuild

\* lines 347-364: one pass of the loop; pdflatex exits with rc, leaves (or
\* not) cv.pdf and cv.log in the temporary directory, and its output is
\* longer than 2000 characters or not
CompilePass ==
    /\ build_pc = "compile"
    /\ pass_i < 2
    /\ \E rc \in ExitCodes, pdf \in BOOLEAN, log \in BOOLEAN, long \in BOOLEAN :
        /\ returncodes' = Append(returncodes, rc)
        /\ cv_pdf' = pdf
        /\ cv_log' = log
        /\ IF CompileFailed(rc)
           THEN /\ printed' = printed
                                \o <<"failed", IF long THEN "stdout tail" ELSE "stdout">>
                                \o (IF log THEN <<"log tail">> ELSE <<>>)
                /\ ReturnFromWith(1)
                /\ UNCHANGED pass_i
           ELSE /\ pass_i' = pass_i + 1
                /\ UNCHANGED <<printed, tmpdir, build_ret, build_pc>>
    /\ UNCHANGED <<build_dox_exists, template_exists, output_pdf>>
    /\ UNCHANGED notBuild

\* line 348: subprocess.run cannot start pdflatex and raises; the exception
\* leaves the with block and ends the script
CompilerNotStarted ==
    /\ build_pc = "compile"
    /\ pass_i < 2
    /\ tmpdir' = "removed"
    /\ build_ret' = 1
    /\ build_pc' = "raised"
    /\ UNCHANGED <<build_dox_exists, template_exists, pass_i, returncodes, cv_pdf,
                   cv_log, printed, output_pdf>>
    /\ UNCHANGED notBuild

\* lines 366-375: after the loop, copy cv.pdf if it exists, leave the with
\* block and return
CopyOutput ==
    /\ build_pc = "compile"
    /\ pass_i = 2
    /\ IF cv_pdf
       THEN /\ output_pdf' = "written"
            /\ printed' = Append(printed, "success")
            /\ ReturnFromWith(0)
       ELSE /\ printed' = Append(printed, "not generated")
            /\ ReturnFromWith(1)
            /\ UNCHANGED output_pdf
    /\ UNCHANGED <<build_dox_exists, template_exists, pass_i, returncodes, cv_pdf, cv_log>>
    /\ UNCHANGED notBuild

NextBuild == BuildStart \/ EnterTmpdir \/ CompilePass \/ CompilerNotStarted \/ CopyOutput

-----------------------------------------------------------------------------
(* extract_sections of both scripts.  The DOX document is a sequence of     *)
(* lines: a section header line, a text line, a blank line, a line holding  *)
(* the closing token of the comment, an @internal line.                     *)

SectionNames == {"skills", "education"}
HeaderLine == [skills |-> "@section skills Skills", education |-> "@section education Education"]
HeaderLines == {HeaderLine[n] : n \in SectionNames}
NameOf(line) == CHOOSE n \in SectionNames : HeaderLine[n] = line
DocLines == HeaderLines \cup {"- text", " ", "*/", "@internal"}

EmptyDict == [n \in {} |-> <<>>]
Put(d, key, v) == [n \in DOMAIN d \cup {key} |-> IF n = key THEN v ELSE d[n]]

\* the lookahead (?=@section|\*/) of SECTION_PATTERN
EndsBody(line) == line \in HeaderLines \/ line = "*/"

\* index of the first line after i that the lookahead accepts, 0 if none
BodyEnd(t, i) ==
    IF \E j \in (i + 1)..Len(t) : EndsBody(t[j])
    THEN CHOOSE j \in (i + 1)..Len(t) :
            /\ EndsBody(t[j])
            /\ \A m \in (i + 1)..(j - 1) : ~EndsBody(t[m])
    ELSE 0

\* str.strip() on lines: leading and trailing blank lines go
RECURSIVE StripBlank(_)
StripBlank(b) ==
    IF b = <<>> THEN b
    ELSE IF Head(b) = " " THEN StripBlank(Tail(b))
    ELSE IF b[Len(b)] = " " THEN StripBlank(SubSeq(b, 1, Len(b) - 1))
    ELSE b

\* strip_internal_tags: the tag and the whitespace after it are removed
RECURSIVE strip_internal_tags(_)
strip_internal_tags(b) ==
    IF b = <<>> THEN b
    ELSE IF Head(b) = "@internal"
         THEN LET rest == Tail(b)
                  RECURSIVE SkipBlank(_)
                  SkipBlank(r) == IF r # <<>> /\ Head(r) = " " THEN SkipBlank(Tail(r)) ELSE r
              IN strip_internal_tags(SkipBlank(rest))
         ELSE <<Head(b)>> \o strip_internal_tags(Tail(b))

CleanHtml(body) == strip_internal_tags(StripBlank(body))
CleanPdf(body) == StripBlank(body)

\* SECTION_PATTERN.findall from line p on: (name, body) pairs in order
RECURSIVE FindAll(_, _)
FindAll(t, p) ==
    IF p > Len(t) THEN <<>>
    ELSE IF t[p] \in HeaderLines /\ BodyEnd(t, p) # 0
         THEN <<[name |-> NameOf(t[p]), body |-> SubSeq(t, p + 1, BodyEnd(t, p) - 1)]>>
              \o FindAll(t, BodyEnd(t, p))
         ELSE FindAll(t, p + 1)

RECURSIVE ToDictHtml(_, _)
ToDictHtml(matches, d) ==
    IF matches = <<>> THEN d
    ELSE ToDictHtml(Tail(matches), Put(d, Head(matches).name, CleanHtml(Head(matches).body)))

RECURSIVE ToDictPdf(_, _)
ToDictPdf(matches, d) ==
    IF matches = <<>> THEN d
    ELSE ToDictPdf(Tail(matches), Put(d, Head(matches).name, CleanPdf(Head(matches).body)))

extract_sections_html(t) == ToDictHtml(FindAll(t, 1), EmptyDict)
extract_sections_pdf(t) == ToDictPdf(FindAll(t, 1), EmptyDict)

ExtractIdle ==
    /\ text = <<>>
    /\ sections_html = EmptyDict
    /\ sections_pdf = EmptyDict
    /\ extract_pc = "idle"

InitExtract ==
    /\ text \in SeqsUpTo(DocLines, MaxDocLen)
    /\ sections_html = EmptyDict
    /\ sections_pdf = EmptyDict
    /\ extract_pc = "start"

ExtractSections ==
    /\ extract_pc = "start"
    /\ sections_html' = extract_sections_html(text)
    /\ sections_pdf' = extract_sections_pdf(text)
    /\ extract_pc' = "done"
    /\ UNCHANGED text
    /\ UNCHANGED notExtract

NextExtract == ExtractSections

-----------------------------------------------------------------------------
(* build_contact_info (HTML) and extract_contact (LaTeX).  A token of the   *)
(* contact line is modelled by what the classifying tests see of it.        *)

ContactTokens ==
    [at : BOOLEAN,          \* contains "@"
     linkedin : BOOLEAN,    \* contains "linkedin", whatever the case
     github : BOOLEAN,      \* contains "github" or "GitHub"
     online_cv : BOOLEAN,   \* contains "Online CV"
     phone : BOOLEAN,       \* matches \(\+?\d
     url : BOOLEAN]         \* contains (http://...) or (https://...)

\* the if/elif chain of build_contact_info: the icon class of the item
HtmlKind(p) ==
    IF p.at THEN "fa-envelope-square"
    ELSE IF p.linkedin THEN "fa-linkedin"
    ELSE IF p.github THEN "fa-github"
    ELSE IF p.online_cv THEN "fa-external-link-alt"
    ELSE IF p.phone THEN "fa-phone-square"
    ELSE "fa-map-marker-alt"

\* the `order` dict of build_contact_info
order ==
    [ph |-> 0, em |-> 1, li |-> 2, gh |-> 3, cv |-> 4, lo |-> 5]

SortKey(item) ==
    IF item.icon = "fa-phone-square" THEN order.ph
    ELSE IF item.icon = "fa-envelope-square" THEN order.em
    ELSE IF item.icon = "fa-linkedin" THEN order.li
    ELSE IF item.icon = "fa-github" THEN order.gh
    ELSE IF item.icon = "fa-external-link-alt" THEN order.cv
    ELSE order.lo

\* list.sort(key=...): a stable sort
RECURSIVE InsertByKey(_, _)
InsertByKey(sorted, item) ==
    IF sorted = <<>> THEN <<item>>
    ELSE IF SortKey(sorted[Len(sorted)]) <= SortKey(item)
         THEN Append(sorted, item)
         ELSE Append(InsertByKey(SubSeq(sorted, 1, Len(sorted) - 1), item),
                     sorted[Len(sorted)])

RECURSIVE SortItems(_, _)
SortItems(unsorted, sorted) ==
    IF unsorted = <<>> THEN sorted
    ELSE SortItems(Tail(unsorted), InsertByKey(sorted, Head(unsorted)))

build_contact_info(ps) ==
    SortItems([i \in 1..Len(ps) |-> [icon |-> HtmlKind(ps[i]), text |-> ps[i]]], <<>>)

\* the if/elif chain of extract_contact: the items one token appends
LatexItems(p) ==
    IF p.at /\ ~p.linkedin /\ ~p.github THEN <<[icon |-> "envelope", text |-> p]>>
    ELSE IF p.phone THEN <<[icon |-> "phone", text |-> p]>>
    ELSE IF p.linkedin THEN (IF p.url THEN <<[icon |-> "linkedin", text |-> p]>> ELSE <<>>)
    ELSE IF p.github THEN (IF p.url THEN <<[icon |-> "github", text |-> p]>> ELSE <<>>)
    ELSE <<[icon |-> "map-marker-alt", text |-> p]>>

RECURSIVE extract_contact(_)
extract_contact(ps) ==
    IF ps = <<>> THEN <<>>
    ELSE LatexItems(Head(ps)) \o extract_contact(Tail(ps))

ContactIdle ==
    /\ parts = <<>>
    /\ items = <<>>
    /\ contact_lines = <<>>
    /\ contact_pc = "idle"

InitContact ==
    /\ parts \in SeqsUpTo(ContactTokens, MaxParts)
    /\ items = <<>>
    /\ contact_lines = <<>>
    /\ contact_pc = "start"

BuildContact ==
    /\ contact_pc = "start"
    /\ items' = build_contact_info(parts)
    /\ contact_lines' = extract_contact(parts)
    /\ contact_pc' = "done"
    /\ UNCHANGED parts
    /\ UNCHANGED notContact

NextContact == BuildContact

-----------------------------------------------------------------------------
(* Splitting the values of a skill line: split_skills of the HTML script    *)
(* and the re.split of the LaTeX script.  A text is a sequence of           *)
(* characters and words.                                                    *)

\* str.strip() on characters: leading and trailing spaces go
RECURSIVE Strip(_)
Strip(t) ==
    IF t = <<>> THEN t
    ELSE IF Head(t) = " " THEN Strip(Tail(t))
    ELSE IF t[Len(t)] = " " THEN Strip(SubSeq(t, 1, Len(t) - 1))
    ELSE t

\* `if current.strip(): result.append(current.strip())`
AppendStripped(result, current) ==
    IF Strip(current) # <<>> THEN Append(result, Strip(current)) ELSE result

\* the loop of split_skills from character i on
RECURSIVE SplitLoop(_, _, _, _, _)
SplitLoop(v, i, current, paren_depth, result) ==
    IF i > Len(v) THEN AppendStripped(result, current)
    ELSE IF v[i] = "("
         THEN SplitLoop(v, i + 1, Append(current, v[i]), paren_depth + 1, result)
    ELSE IF v[i] = ")"
         THEN SplitLoop(v, i + 1, Append(current, v[i]), paren_depth - 1, result)
    ELSE IF v[i] = "," /\ paren_depth = 0
         THEN SplitLoop(v, i + 1, <<>>, paren_depth, AppendStripped(result, current))
    ELSE SplitLoop(v, i + 1, Append(current, v[i]), paren_depth, result)

split_skills(v) == SplitLoop(v, 1, <<>>, 0, <<>>)

\* the lookahead (?![^()]*\)) fails at i: the next parenthesis after i closes
ClosesNext(v, i) ==
    \E j \in (i + 1)..Len(v) :
        /\ v[j] = ")"
        /\ \A m \in (i + 1)..(j - 1) : v[m] \notin {"(", ")"}

\* the places where  ,\s*(?![^()]*\))  matches
LatexSplitPoints(v) == {i \in 1..Len(v) : v[i] = "," /\ ~ClosesNext(v, i)}

\* the pieces of v between the characters at the places P
RECURSIVE Pieces(_, _, _, _)
Pieces(v, P, i, current) ==
    IF i > Len(v) THEN <<current>>
    ELSE IF i \in P THEN <<current>> \o Pieces(v, P, i + 1, <<>>)
    ELSE Pieces(v, P, i + 1, Append(current, v[i]))

\* [v.strip() for v in pieces if v.strip()]
RECURSIVE StripNonEmpty(_)
StripNonEmpty(ps) ==
    IF ps = <<>> THEN <<>>
    ELSE AppendStripped(<<>>, Head(ps)) \o StripNonEmpty(Tail(ps))

latex_split(v) == StripNonEmpty(Pieces(v, LatexSplitPoints(v), 1, <<>>))

ValueChars == {"(", ")", ",", " ", "a"}

\* "A (x, y), B"
ExampleVals == <<"A", " ", "(", "x", ",", " ", "y", ")", ",", " ", "B">>

SplitIdle ==
    /\ vals = <<>>
    /\ html_tags = <<>>
    /\ latex_tags = <<>>
    /\ split_pc = "idle"

InitSplit ==
    /\ vals \in SeqsUpTo(ValueChars, MaxValsLen) \cup {ExampleVals}
    /\ html_tags = <<>>
    /\ latex_tags = <<>>
    /\ split_pc = "start"

SplitValues ==
    /\ split_pc = "start"
    /\ html_tags' = split_skills(vals)
    /\ latex_tags' = latex_split(vals)
    /\ split_pc' = "done"
    /\ UNCHANGED vals
    /\ UNCHANGED notSplit

NextSplit == SplitValues

-----------------------------------------------------------------------------
(* build_skills of both scripts.  A line of the section body is modelled by *)
(* what the parser sees of it: whether its stripped text starts with "-",   *)
(* the text of its "<b>...</b>:" prefix (empty when the line has none), and *)
(* the text after the prefix.                                               *)

SKILL_BADGE_COLORS ==
    (<<"Programming", " ", "Languages">> :> "primary")
    @@ (<<"Automotive", " ", "Standards">> :> "primary")
    @@ (<<"Tools", " ", "&", " ", "Platforms">> :> "secondary")
    @@ (<<"DevOps">> :> "info")
    @@ (<<"Methodologies">> :> "success")
    @@ (<<"Soft", " ", "Skills">> :> "warning")

icon_map ==
    (<<"Programming", " ", "Languages">> :> "code")
    @@ (<<"Automotive", " ", "Standards">> :> "car")
    @@ (<<"Tools", " ", "&", " ", "Platforms">> :> "tools")
    @@ (<<"DevOps">> :> "server")
    @@ (<<"Methodologies">> :> "project-diagram")
    @@ (<<"Soft", " ", "Skills">> :> "users")

\* dict.get(key, default)
Get(d, key, default) == IF key \in DOMAIN d THEN d[key] ELSE default

\* str.replace(old, new) for a one-character old
RECURSIVE Replace(_, _, _)
Replace(t, old, new) ==
    IF t = <<>> THEN <<>>
    ELSE (IF Head(t) = old THEN new ELSE <<Head(t)>>) \o Replace(Tail(t), old, new)

\* the `replacements` list of escape_latex, in its order
replacements ==
    << <<"&", <<"\\", "&">> >>,
       <<"%", <<"\\", "%">> >>,
       <<"$", <<"\\", "$">> >>,
       <<"#", <<"\\", "#">> >>,
       <<"_", <<"\\", "_">> >>,
       <<"{", <<"\\", "{">> >>,
       <<"}", <<"\\", "}">> >>,
       <<"~", <<"\\", "textasciitilde", "{", "}">> >>,
       <<"^", <<"\\", "textasciicircum", "{", "}">> >> >>

RECURSIVE EscapeFrom(_, _)
EscapeFrom(t, n) ==
    IF n > Len(replacements) THEN t
    ELSE EscapeFrom(Replace(t, replacements[n][1], replacements[n][2]), n + 1)

escape_latex(t) == EscapeFrom(t, 1)

\* the list comprehension of line 128 / 107: the lines that start with "-"
RECURSIVE DashLines(_)
DashLines(ls) ==
    IF ls = <<>> THEN <<>>
    ELSE (IF Head(ls).dash THEN <<Head(ls)>> ELSE <<>>) \o DashLines(Tail(ls))

\* mutant of MatchesSkill: every list-item line is taken for a skill line
MatchesSkillAnyLine(ln) == TRUE

\* re.match(r'<b>([^<]+)</b>:\s*(.*)', ln)
MatchesSkill(ln) == ln.cat # <<>>

\* mutant of AppendBlock: the block is put in front
PrependBlock(blocks, block) == <<block>> \o blocks

\* blocks.append(block)
AppendBlock(blocks, block) == Append(blocks, block)

HtmlBlock(ln) ==
    [cat |-> Strip(ln.cat),
     badge |-> Get(SKILL_BADGE_COLORS, Strip(ln.cat), "primary"),
     tags |-> split_skills(ln.vals)]

RECURSIVE HtmlBlocks(_, _)
HtmlBlocks(ls, blocks) ==
    IF ls = <<>> THEN blocks
    ELSE HtmlBlocks(Tail(ls),
                    IF MatchesSkill(Head(ls))
                    THEN AppendBlock(blocks, HtmlBlock(Head(ls)))
                    ELSE blocks)

\* update_html_from_dox.build_skills: the blocks, or the raw text when no
\* line gave a block
build_skills_html(ls) ==
    [blocks |-> HtmlBlocks(DashLines(ls), <<>>),
     raw_fallback |-> HtmlBlocks(DashLines(ls), <<>>) = <<>>]

RECURSIVE EscapeAll(_)
EscapeAll(ts) ==
    IF ts = <<>> THEN <<>>
    ELSE <<escape_latex(Head(ts))>> \o EscapeAll(Tail(ts))

LatexBlock(ln) ==
    [icon |-> Get(icon_map, Strip(ln.cat), "check"),
     cat |-> escape_latex(Strip(ln.cat)),
     tags |-> EscapeAll(latex_split(ln.vals))]

RECURSIVE LatexBlocks(_, _)
LatexBlocks(ls, blocks) ==
    IF ls = <<>> THEN blocks
    ELSE LatexBlocks(Tail(ls),
                     IF MatchesSkill(Head(ls))
                     THEN AppendBlock(blocks, LatexBlock(Head(ls)))
                     ELSE blocks)

\* build_sidebar_cv.build_skills
build_skills_latex(ls) == LatexBlocks(DashLines(ls), <<>>)

\* "C++, Python (scripting)"
ExampleSkillVals == <<"C++", ",", " ", "Python", " ", "(", "scripting", ")">>

\* "- <b>Languages</b>: C++, Python (scripting)"
ExampleSkillLine == [dash |-> TRUE, cat |-> <<"Languages">>, vals |-> ExampleSkillVals]

SkillCats == {<<>>, <<"Languages">>, <<"DevOps", " ">>, <<"Tools", " ", "&", " ", "Platforms">>}

SkillVals ==
    {<<>>,
     <<"a">>,
     <<"b", ",", "a", "_", "c">>,
     <<"a", " ", "(", "b", ",", " ", "c", ")", ",", "d">>,
     ExampleSkillVals}

SkillLines == [dash : BOOLEAN, cat : SkillCats, vals : SkillVals]

SkillsIdle ==
    /\ skill_lines = <<>>
    /\ html_skills = [blocks |-> <<>>, raw_fallback |-> FALSE]
    /\ latex_skills = <<>>
    /\ skills_pc = "idle"

InitSkills ==
    /\ skill_lines \in SeqsUpTo(SkillLines, MaxSkillLines)
    /\ html_skills = [blocks |-> <<>>, raw_fallback |-> FALSE]
    /\ latex_skills = <<>>
    /\ skills_pc = "start"

BuildSkills ==
    /\ skills_pc = "start"
    /\ html_skills' = build_skills_html(skill_lines)
    /\ latex_skills' = build_skills_latex(skill_lines)
    /\ skills_pc' = "done"
    /\ UNCHANGED skill_lines
    /\ UNCHANGED notSkills

NextSkills == BuildSkills

-----------------------------------------------------------------------------
(* update_html_from_dox.build_education.  A line of the section body is     *)
(* modelled by its shape: blank, the rule "---", a line matching            *)
(* <b>left</b> @fill <em>right</em>, a list item "- text", anything else.   *)

Digits == {"0", "1", "2", "3", "4", "5", "6", "7", "8", "9"}

\* re.search(r'\d', t)
HasDigit(t) == \E i \in 1..Len(t) : t[i] \in Digits

EduLefts == {<<"Uni">>, <<"Uni", " ", "7">>, <<"BSc", " ">>, <<" ">>}
EduRights == {<<"City">>, <<"2", "0", "2", "4">>, <<"District", " ", "7">>}
EduItems == {<<"GPA:", " ", "3">>, <<"GPA:", " ", "4">>, <<"note">>}

EduLines ==
    [kind : {"pair"}, left : EduLefts, right : EduRights]
    \cup [kind : {"item"}, left : EduItems, right : {<<>>}]
    \cup [kind : {"blank", "rule", "other"}, left : {<<>>}, right : {<<>>}]

\* mutant of IsDegreeLine: a digit in either field makes a degree line
IsDegreeLineAnyDigit(left_part, right_part) == HasDigit(left_part) \/ HasDigit(right_part)

\* line 218: the test that tells a degree line from the university line
IsDegreeLine(left_part, right_part) == HasDigit(right_part)

\* mutant of IsGpa: every list item is taken for a GPA
IsGpaAnyItem(item) == item # <<>>

\* gpa_text.startswith('GPA:')
IsGpa(item) == item # <<>> /\ Head(item) = "GPA:"

\* `if current_degree: degrees.append((current_degree, current_dates, current_gpa))`
SaveDegree(ds, degree, dates, gpa) ==
    IF degree # <<>>
    THEN Append(ds, [degree |-> degree, dates |-> dates, gpa |-> gpa])
    ELSE ds

EduIdle ==
    /\ edu_lines = <<>>
    /\ edu_i = 1
    /\ university_name = <<>>
    /\ university_location = <<>>
    /\ degrees = <<>>
    /\ current_degree = <<>>
    /\ current_dates = <<>>
    /\ current_gpa = <<>>
    /\ edu_html = <<>>
    /\ edu_pc = "idle"

InitEdu ==
    /\ edu_lines \in SeqsUpTo(EduLines, MaxEduLines)
    /\ edu_i = 1
    /\ university_name = <<>>
    /\ university_location = <<>>
    /\ degrees = <<>>
    /\ current_degree = <<>>
    /\ current_dates = <<>>
    /\ current_gpa = <<>>
    /\ edu_html = <<>>
    /\ edu_pc = "loop"

\* lines 205-235: one iteration of `for line in lines`
EduLine ==
    /\ edu_pc = "loop"
    /\ edu_i <= Len(edu_lines)
    /\ LET line == edu_lines[edu_i]
       IN IF line.kind = "pair"
          THEN IF IsDegreeLine(Strip(line.left), Strip(line.right))
               THEN /\ degrees' = SaveDegree(degrees, current_degree, current_dates, current_gpa)
                    /\ current_degree' = Strip(line.left)
                    /\ current_dates' = Strip(line.right)
                    /\ current_gpa' = <<>>
                    /\ UNCHANGED <<university_name, university_location>>
               ELSE /\ university_name' = Strip(line.left)
                    /\ university_location' = Strip(line.right)
                    /\ UNCHANGED <<degrees, current_degree, current_dates, current_gpa>>
          ELSE IF line.kind = "item" /\ IsGpa(line.left)
          THEN /\ current_gpa' = line.left
               /\ UNCHANGED <<university_name, university_location, degrees,
                              current_degree, current_dates>>
          ELSE UNCHANGED <<university_name, university_location, degrees,
                           current_degree, current_dates, current_gpa>>
    /\ edu_i' = edu_i + 1
    /\ UNCHANGED <<edu_lines, edu_html, edu_pc>>
    /\ UNCHANGED notEdu

\* lines 237-257: the last degree is saved and the HTML built
EduRender ==
    /\ edu_pc = "loop"
    /\ edu_i > Len(edu_lines)
    /\ degrees' = SaveDegree(degrees, current_degree, current_dates, current_gpa)
    /\ edu_html' = IF degrees' = <<>>
                   THEN <<"No education info">>
                   ELSE <<[h4 |-> <<university_name, university_location>>,
                           entries |-> degrees']>>
    /\ edu_pc' = "done"
    /\ UNCHANGED <<edu_lines, edu_i, university_name, university_location,
                   current_degree, current_dates, current_gpa>>
    /\ UNCHANGED notEdu

NextEdu == EduLine \/ EduRender

-----------------------------------------------------------------------------
(* build_languages and build_certifications of both scripts.  A line of    *)
(* the section body is modelled by what the parsers see of it: whether it  *)
(* starts with "-", the text of its "<b>...</b>:" prefix (<<>> when the    *)
(* line has none) and the text after the dash and the prefix.              *)

\* the text of a list-item line after re.sub(r'^-\s*', '', ln)
ItemText(ln) ==
    IF ln.label = <<>> THEN Strip(ln.text)
    ELSE Strip(<<"<b>">> \o ln.label \o <<"</b>", ":">> \o ln.text)

\* re.match(r'<b>([^<]+)</b>:\s*(.*)', ln)
MatchesLanguage(ln) == ln.label # <<>>

\* lines 175-183 of update_html_from_dox.py: the loop over the list items
RECURSIVE HtmlLanguageItems(_)
HtmlLanguageItems(ls) ==
    IF ls = <<>> THEN <<>>
    ELSE (IF MatchesLanguage(Head(ls))
          THEN <<[lang |-> Strip(Head(ls).label), level |-> Strip(Head(ls).text),
                  verbatim |-> <<>>]>>
          ELSE <<[lang |-> <<>>, level |-> <<>>, verbatim |-> ItemText(Head(ls))]>>)
         \o HtmlLanguageItems(Tail(ls))

\* update_html_from_dox.build_languages: the items, or the placeholder
\* '<li>No languages listed</li>' when there is none
build_languages_html(ls) ==
    [items |-> HtmlLanguageItems(DashLines(ls)),
     placeholder |-> HtmlLanguageItems(DashLines(ls)) = <<>>]

\* lines 156-162 of build_sidebar_cv.py: the loop over the list items
RECURSIVE LatexLanguageItems(_)
LatexLanguageItems(ls) ==
    IF ls = <<>> THEN <<>>
    ELSE (IF MatchesLanguage(Head(ls))
          THEN <<[lang |-> escape_latex(Strip(Head(ls).label)),
                  level |-> escape_latex(Strip(Head(ls).text)),
                  verbatim |-> <<>>]>>
          ELSE <<>>)
         \o LatexLanguageItems(Tail(ls))

\* build_sidebar_cv.build_languages
build_languages_latex(ls) == LatexLanguageItems(DashLines(ls))

RECURSIVE HtmlCertificationItems(_)
HtmlCertificationItems(ls) ==
    IF ls = <<>> THEN <<>>
    ELSE <<ItemText(Head(ls))>> \o HtmlCertificationItems(Tail(ls))

\* update_html_from_dox.build_certifications: the items, or the placeholder
\* '<li>No certifications listed</li>' when there is none
build_certifications_html(ls) ==
    [items |-> HtmlCertificationItems(DashLines(ls)),
     placeholder |-> HtmlCertificationItems(DashLines(ls)) = <<>>]

\* the number of whitespace tokens t starts with
RECURSIVE LeadingSpaces(_)
LeadingSpaces(t) ==
    IF t # <<>> /\ Head(t) = " " THEN 1 + LeadingSpaces(Tail(t)) ELSE 0

\* the end of a match of \s*\([^)]*Internal[^)]*\) at the start of t, 0 if none
InternalMatchEnd(t) ==
    LET open == LeadingSpaces(t) + 1
        close == IndexFrom(t, ")", open + 1)
    IN IF /\ open <= Len(t)
          /\ t[open] = "("
          /\ close > 0
          /\ \E m \in (open + 1)..(close - 1) : t[m] = "Internal"
       THEN close
       ELSE 0

\* re.sub(r'\s*\([^)]*Internal[^)]*\)', '', ln)
RECURSIVE RemoveInternal(_)
RemoveInternal(t) ==
    IF t = <<>> THEN <<>>
    ELSE IF InternalMatchEnd(t) > 0
         THEN RemoveInternal(SubSeq(t, InternalMatchEnd(t) + 1, Len(t)))
         ELSE <<Head(t)>> \o RemoveInternal(Tail(t))

RECURSIVE LatexCertificationItems(_)
LatexCertificationItems(ls) ==
    IF ls = <<>> THEN <<>>
    ELSE <<escape_latex(RemoveInternal(ItemText(Head(ls))))>>
         \o LatexCertificationItems(Tail(ls))

\* build_sidebar_cv.build_certifications
build_certifications_latex(ls) == LatexCertificationItems(DashLines(ls))

ListLabels == {<<>>, <<"English">>, <<"Vietnamese", " ">>}

ListTexts ==
    {<<>>,
     <<" ", "Fluent">>,
     <<"C1", " ", "(", "IELTS", "_", "7", ")">>,
     <<"AWS", " ", "(", "Bosch", " ", "Internal", ")">>}

ListLines == [dash : BOOLEAN, label : ListLabels, text : ListTexts]

ListsIdle ==
    /\ list_lines = <<>>
    /\ html_languages = [items |-> <<>>, placeholder |-> FALSE]
    /\ latex_languages = <<>>
    /\ html_certifications = [items |-> <<>>, placeholder |-> FALSE]
    /\ latex_certifications = <<>>
    /\ lang_pc = "idle"
    /\ cert_pc = "idle"

InitLists ==
    /\ list_lines \in SeqsUpTo(ListLines, MaxListLines)
    /\ html_languages = [items |-> <<>>, placeholder |-> FALSE]
    /\ latex_languages = <<>>
    /\ html_certifications = [items |-> <<>>, placeholder |-> FALSE]
    /\ latex_certifications = <<>>
    /\ lang_pc = "start"
    /\ cert_pc = "start"

BuildLanguages ==
    /\ lang_pc = "start"
    /\ html_languages' = build_languages_html(list_lines)
    /\ latex_languages' = build_languages_latex(list_lines)
    /\ lang_pc' = "done"
    /\ UNCHANGED <<list_lines, html_certifications, latex_certifications, cert_pc>>
    /\ UNCHANGED notLists

BuildCertifications ==
    /\ cert_pc = "start"
    /\ html_certifications' = build_certifications_html(list_lines)
    /\ latex_certifications' = build_certifications_latex(list_lines)
    /\ cert_pc' = "done"
    /\ UNCHANGED <<list_lines, html_languages, latex_languages, lang_pc>>
    /\ UNCHANGED notLists

NextLists == BuildLanguages \/ BuildCertifications

-----------------------------------------------------------------------------
(* build_sidebar_cv.build_experience.  A line of the section body is       *)
(* modelled by its shape:                                                  *)
(*   "subsection"     @subsection id text                                  *)
(*   "subsubsection"  @subsubsection id text | dates   (dates may be <<>>) *)
(*   "header"         <b>text:</b> dates      (`dates` holds the value)    *)
(*   "item"           a line whose stripped form is "- text", indented or  *)
(*                    not; text is a sequence of words, characters and the *)
(*                    markup tokens "<b>" and "</b>"                       *)
(*   "blank", "rule", "other"                                              *)
(* Every "subsubsection" line of the model has a title, so that no         *)
(* position is empty.                                                      *)

Markup == {"<b>", "</b>"}

\* index of the first markup token of t at or after from, 0 if none
FirstMarkup(t, from) ==
    IF \E i \in from..Len(t) : t[i] \in Markup
    THEN CHOOSE i \in from..Len(t) :
            /\ t[i] \in Markup
            /\ \A j \in from..(i - 1) : t[j] \notin Markup
    ELSE 0

\* re.sub(r'<b>([^<]+)</b>', r'\\textbf{\1}', item_text)
RECURSIVE BoldToTextbf(_)
BoldToTextbf(t) ==
    IF t = <<>> THEN <<>>
    ELSE IF /\ Head(t) = "<b>"
            /\ FirstMarkup(t, 2) > 2
            /\ t[FirstMarkup(t, 2)] = "</b>"
         THEN <<"\\textbf", "{">> \o SubSeq(t, 2, FirstMarkup(t, 2) - 1) \o <<"}">>
              \o BoldToTextbf(SubSeq(t, FirstMarkup(t, 2) + 1, Len(t)))
         ELSE <<Head(t)>> \o BoldToTextbf(Tail(t))

\* re.match(r'<b>([^<]+):</b>\s*(.*)', item_text)
CatMatch(t) ==
    /\ t # <<>>
    /\ Head(t) = "<b>"
    /\ FirstMarkup(t, 2) > 3
    /\ t[FirstMarkup(t, 2)] = "</b>"
    /\ t[FirstMarkup(t, 2) - 1] = ":"

CatName(t) == SubSeq(t, 2, FirstMarkup(t, 2) - 2)

\* group 2 of the match: the \s* before it has taken the leading whitespace
RECURSIVE SkipSpaces(_)
SkipSpaces(t) == IF t # <<>> /\ Head(t) = " " THEN SkipSpaces(Tail(t)) ELSE t

CatValue(t) == SkipSpaces(SubSeq(t, FirstMarkup(t, 2) + 1, Len(t)))

Part(kind, name, txt) == [kind |-> kind, name |-> name, text |-> txt]

\* [f'\\item {escape_latex(item)}' for item in current_list]
RECURSIVE ItemParts(_)
ItemParts(list) ==
    IF list = <<>> THEN <<>>
    ELSE <<Part("item", <<>>, escape_latex(Head(list)))>> \o ItemParts(Tail(list))

\* `if current_list:` ... the itemize environment of the pending list
FlushList(st) ==
    IF st.current_list # <<>>
    THEN [st EXCEPT !.content_parts = @ \o <<Part("begin", <<>>, <<>>)>>
                                        \o ItemParts(st.current_list)
                                        \o <<Part("end", <<>>, <<>>)>>,
                    !.current_list = <<>>]
    ELSE st

\* lines 203-218: a header line
HeaderStep(st, line) ==
    LET header_name == Strip(line.text)
        header_value == Strip(line.dates)
        flushed == FlushList(st)
    IN IF header_name \in {<<"Customer">>, <<"Product">>}
       THEN [flushed EXCEPT !.content_parts =
                Append(@, Part("field", header_name, escape_latex(header_value)))]
       ELSE IF header_name \in {<<"Responsibilities">>, <<"Achievements">>}
       THEN [flushed EXCEPT !.current_header = header_name]
       ELSE [flushed EXCEPT !.content_parts =
                Append(@, Part("header", <<>>, escape_latex(header_name)))]

\* lines 219-237: a list item
ItemStep(st, line) ==
    LET item_text == Strip(line.text)
        flushed == FlushList(st)
    IN IF CatMatch(item_text)
       THEN [flushed EXCEPT !.content_parts =
                @ \o <<Part("cat", <<>>, escape_latex(CatName(item_text)))>>
                  \o (IF CatValue(item_text) # <<>>
                      THEN <<Part("catvalue", <<>>, escape_latex(CatValue(item_text)))>>
                      ELSE <<>>)
                  \o <<Part("break", <<>>, <<>>)>>]
       ELSE [st EXCEPT !.current_list = Append(@, BoldToTextbf(item_text))]

\* lines 196-243: the loop over the content lines of one position.  The
\* branch of line 238 is never taken: a line that starts with "  - " has a
\* stripped form that starts with "- " and is taken by the branch of line 219.
RECURSIVE ContentParts(_, _)
ContentParts(ls, st) ==
    IF ls = <<>> THEN FlushList(st).content_parts
    ELSE ContentParts(Tail(ls),
            IF Head(ls).kind = "header" THEN HeaderStep(st, Head(ls))
            ELSE IF Head(ls).kind = "item" THEN ItemStep(st, Head(ls))
            ELSE st)

\* the lines that re.split(r'@subsubsection\s+\w+\s+', raw) splits at
PositionLines(ls) == {i \in 1..Len(ls) : ls[i].kind = "subsubsection"}

\* the k-th of them
PositionLine(ls, n) ==
    CHOOSE p \in PositionLines(ls) :
        Cardinality({q \in PositionLines(ls) : q <= p}) = n

\* the line after the last content line of the position that starts at p
PositionEnd(ls, p) ==
    LET later == {q \in PositionLines(ls) : q > p}
    IN IF later = {} THEN Len(ls) + 1 ELSE CHOOSE q \in later : \A r \in later : q <= r

\* re.search(r'@subsection\s+\w+\s+(.+?)(?=\n)', raw): the first @subsection
\* line that a newline follows
Company(ls) ==
    LET found == {i \in 1..(Len(ls) - 1) : ls[i].kind = "subsection"}
    IN IF found = {} THEN <<"Company">>
       ELSE Strip(ls[CHOOSE i \in found : \A j \in found : i <= j].text)

\* lines 178-262: one entry per position, the company in the first only
build_experience(ls) ==
    [n \in 1..Cardinality(PositionLines(ls)) |->
        LET p == PositionLine(ls, n)
        IN [company |-> IF n = 1 THEN escape_latex(Company(ls)) ELSE <<>>,
            title |-> escape_latex(Strip(ls[p].text)),
            dates |-> escape_latex(Strip(ls[p].dates)),
            content |-> ContentParts(SubSeq(ls, p + 1, PositionEnd(ls, p) - 1),
                                     [content_parts |-> <<>>, current_list |-> <<>>,
                                      current_header |-> <<>>])]]

ExpItemTexts ==
    {<<"plain", " ">>,
     <<"Won", " ", "<b>", "Award", "</b>", " ", "2020">>,
     <<"<b>", "Tools", ":", "</b>", " ", "gdb">>,
     <<"<b>", "</b>", "a", "_", "b">>}

ExpHeaderNames == {<<"Customer">>, <<"Responsibilities">>, <<"Notes", " ">>}

ExpLines ==
    [kind : {"subsection"}, indent : {FALSE}, text : {<<"Bosch">>}, dates : {<<>>}]
    \cup [kind : {"subsubsection"}, indent : {FALSE}, text : {<<"Engineer">>},
          dates : {<<>>, <<"2020">>}]
    \cup [kind : {"header"}, indent : {FALSE}, text : ExpHeaderNames, dates : {<<"X">>}]
    \cup [kind : {"item"}, indent : BOOLEAN, text : ExpItemTexts, dates : {<<>>}]
    \cup [kind : {"blank", "rule", "other"}, indent : {FALSE}, text : {<<>>}, dates : {<<>>}]

ExpIdle ==
    /\ exp_lines = <<>>
    /\ exp_entries = <<>>
    /\ exp_pc = "idle"

InitExp ==
    /\ exp_lines \in SeqsUpTo(ExpLines, MaxExpLines)
    /\ exp_entries = <<>>
    /\ exp_pc = "start"

BuildExperience ==
    /\ exp_pc = "start"
    /\ exp_entries' = build_experience(exp_lines)
    /\ exp_pc' = "done"
    /\ UNCHANGED exp_lines
    /\ UNCHANGED notExp

NextExp == BuildExperience

-----------------------------------------------------------------------------
(* update_html_from_dox.build_work.  A line of the section body is         *)
(* modelled by its shape:                                                  *)
(*   "company"   <b>text</b> @fill <em>value</em>                          *)
(*   "position"  <b>text</b>                                               *)
(*   "project"   <i>text</i> @fill <em>value</em>                          *)
(*   "section"   <b>text:</b>, text is Responsibilities or Achievements    *)
(*   "bullet"    a line whose stripped form starts with "- ", indented by  *)
(*               two spaces or not, of the form                            *)
(*                 "category_colon"  - <b>text:</b>                        *)
(*                 "category"        - <b>text</b>                         *)
(*                 "bold_item"       - <b>text:</b> value                  *)
(*                 "plain"           - text                                *)
(*   "tight"     "-text", no space after the dash, indented or not         *)
(*   "blank", "rule", "other"                                              *)
(* The rendered HTML is a sequence of elements [tag, text, more].          *)

WorkLine(kind, indent, form, txt, value) ==
    [kind |-> kind, indent |-> indent, form |-> form, text |-> txt, value |-> value]

El(tag, txt, more) == [tag |-> tag, text |-> txt, more |-> more]

\* lines 301-311: the dict of a new project
NewProject(line, position) ==
    [info |-> Strip(line.text), dates |-> Strip(line.value), position |-> position,
     responsibilities |-> <<>>, achievements |-> <<>>]

\* `if current_project: projects.append(current_project)`
SaveProject(ps, project) == IF project # <<>> THEN Append(ps, project) ELSE ps

\* item_text = re.sub(r'^-\s*', '', stripped)
BulletText(line) ==
    IF line.form = "category_colon" THEN <<"<b>">> \o Strip(line.text) \o <<":", "</b>">>
    ELSE IF line.form = "category" THEN <<"<b>">> \o Strip(line.text) \o <<"</b>">>
    ELSE Strip(line.text)

\* lines 324-360: what a line that starts with "- " appends to the current
\* project
BulletItems(line, section) ==
    IF line.form = "category_colon" /\ section = <<"Responsibilities">>
    THEN [responsibilities |-> <<El("category", Strip(line.text), <<>>)>>, achievements |-> <<>>]
    ELSE IF line.form = "category" /\ section = <<"Responsibilities">>
    THEN [responsibilities |-> <<El("category", Strip(line.text), <<>>)>>, achievements |-> <<>>]
    ELSE IF line.form = "bold_item"
    THEN [responsibilities |-> <<>>,
          achievements |-> IF section = <<"Achievements">>
                           THEN <<El("bold_item", Strip(line.text), Strip(line.value))>>
                           ELSE <<>>]
    ELSE IF section = <<"Responsibilities">>
    THEN [responsibilities |-> <<El(IF line.indent THEN "sub" ELSE "item",
                                    BulletText(line), <<>>)>>,
          achievements |-> <<>>]
    ELSE IF section = <<"Achievements">>
    THEN [responsibilities |-> <<>>, achievements |-> <<El("item", BulletText(line), <<>>)>>]
    ELSE [responsibilities |-> <<>>, achievements |-> <<>>]

\* lines 328 and 336: the category a bullet opens, if it opens one
BulletCategory(line, section, category) ==
    IF line.form \in {"category_colon", "category"} /\ section = <<"Responsibilities">>
    THEN Strip(line.text)
    ELSE category

\* re.sub(r'<b>([^<]+)</b>', r'<strong>\1</strong>', item[1])
RECURSIVE BoldToStrong(_)
BoldToStrong(t) ==
    IF t = <<>> THEN <<>>
    ELSE IF /\ Head(t) = "<b>"
            /\ FirstMarkup(t, 2) > 2
            /\ t[FirstMarkup(t, 2)] = "</b>"
         THEN <<"<strong>">> \o SubSeq(t, 2, FirstMarkup(t, 2) - 1) \o <<"</strong>">>
              \o BoldToStrong(SubSeq(t, FirstMarkup(t, 2) + 1, Len(t)))
         ELSE <<Head(t)>> \o BoldToStrong(Tail(t))

\* lines 394-408: the loop over proj['responsibilities'] and the closing
\* </ul>; current_cat is <<>> for None
RECURSIVE RenderResponsibilities(_, _)
RenderResponsibilities(its, current_cat) ==
    IF its = <<>>
    THEN (IF current_cat # <<>> THEN <<El("/ul", <<>>, <<>>)>> ELSE <<>>)
    ELSE IF Head(its).tag = "category"
    THEN (IF current_cat # <<>> THEN <<El("/ul", <<>>, <<>>)>> ELSE <<>>)
         \o <<El("p_category", Head(its).text, <<>>), El("ul", <<>>, <<>>)>>
         \o RenderResponsibilities(Tail(its), Head(its).text)
    ELSE IF Head(its).tag = "sub"
    THEN <<El("li", Head(its).text, <<>>)>> \o RenderResponsibilities(Tail(its), current_cat)
    ELSE (IF current_cat = <<>> THEN <<El("ul", <<>>, <<>>)>> ELSE <<>>)
         \o <<El("li", Head(its).text, <<>>)>>
         \o RenderResponsibilities(Tail(its),
                                   IF current_cat = <<>> THEN <<"default">> ELSE current_cat)

\* lines 415-420: the loop over proj['achievements']
RECURSIVE RenderAchievements(_)
RenderAchievements(its) ==
    IF its = <<>> THEN <<>>
    ELSE <<IF Head(its).tag = "bold_item"
           THEN El("li", <<"<strong>">> \o Head(its).text \o <<":", "</strong>", " ">>
                          \o Head(its).more, <<>>)
           ELSE El("li", BoldToStrong(Head(its).text), <<>>)>>
         \o RenderAchievements(Tail(its))

\* lines 375-424: the <div> of the i-th project
RenderProject(i, proj, name, location) ==
    (IF i = 1
     THEN <<El("div mb-5", <<>>, <<>>), El("h4", name, location)>>
     ELSE <<El("div mb-4", <<>>, <<>>)>>)
    \o <<El("position_time", proj.position, proj.dates)>>
    \o (IF proj.info # <<>> THEN <<El("p_info", proj.info, <<>>)>> ELSE <<>>)
    \o (IF proj.responsibilities # <<>>
        THEN <<El("p_label", <<"Responsibilities">>, <<>>)>>
             \o RenderResponsibilities(proj.responsibilities, <<>>)
        ELSE <<>>)
    \o (IF proj.achievements # <<>>
        THEN <<El("p_label", <<"Achievements">>, <<>>), El("ul", <<>>, <<>>)>>
             \o RenderAchievements(proj.achievements)
             \o <<El("/ul", <<>>, <<>>)>>
        ELSE <<>>)
    \o <<El("/div", <<>>, <<>>)>>

\* lines 373-428
RenderWork(ps, name, location) ==
    IF ps = <<>>
    THEN << <<El("div mb-3", <<"No work experience parsed.">>, <<>>)>> >>
    ELSE [i \in 1..Len(ps) |-> RenderProject(i, ps[i], name, location)]

WorkTexts == {<<"did", " ", "<b>", "x", "</b>">>}

\* the lines about companies, positions and projects
HeadingShapes ==
    {WorkLine("company", FALSE, "", <<"CoA">>, <<"CityA">>),
     WorkLine("company", FALSE, "", <<"CoB">>, <<"CityB">>),
     WorkLine("position", FALSE, "", <<"Engineer">>, <<>>),
     WorkLine("position", FALSE, "", <<"Manager">>, <<>>),
     WorkLine("project", FALSE, "", <<"Customer: X">>, <<"2020">>),
     WorkLine("project", FALSE, "", <<"Customer: Y">>, <<"2022">>),
     WorkLine("other", FALSE, "", <<>>, <<>>),
     WorkLine("rule", FALSE, "", <<>>, <<>>)}

\* the lines inside a project
ProjectShapes ==
    {WorkLine("section", FALSE, "", <<"Responsibilities">>, <<>>),
     WorkLine("section", FALSE, "", <<"Achievements">>, <<>>),
     WorkLine("project", FALSE, "", <<"Customer: Y">>, <<"2022">>),
     WorkLine("bullet", FALSE, "category_colon", <<"Cat1">>, <<>>),
     WorkLine("bullet", FALSE, "bold_item", <<"Award">>, <<"best">>),
     WorkLine("tight", TRUE, "", <<"t">>, <<>>)}
    \cup {WorkLine("bullet", ind, "plain", t, <<>>) : ind \in BOOLEAN, t \in WorkTexts}

\* a body of heading lines, or a project line followed by lines of a project
WorkBodies ==
    SeqsUpTo(HeadingShapes, MaxWorkLines)
    \cup {<<WorkLine("project", FALSE, "", <<"Customer: X">>, <<"2020">>)>> \o b :
            b \in SeqsUpTo(ProjectShapes, MaxWorkLines)}

WorkIdle ==
    /\ work_lines = <<>>
    /\ work_i = 1
    /\ company_name = <<>>
    /\ company_location = <<>>
    /\ current_position = <<>>
    /\ projects = <<>>
    /\ current_project = <<>>
    /\ current_section = <<>>
    /\ current_category = <<>>
    /\ work_divs = <<>>
    /\ work_pc = "idle"

InitWork ==
    /\ work_lines \in WorkBodies
    /\ work_i = 1
    /\ company_name = <<>>
    /\ company_location = <<>>
    /\ current_position = <<>>
    /\ projects = <<>>
    /\ current_project = <<>>
    /\ current_section = <<>>
    /\ current_category = <<>>
    /\ work_divs = <<>>
    /\ work_pc = "loop"

\* lines 281-366: one iteration of `for line in lines`
WorkStep ==
    /\ work_pc = "loop"
    /\ work_i <= Len(work_lines)
    /\ LET line == work_lines[work_i]
       IN IF line.kind = "company"
          THEN /\ company_name' = Strip(line.text)
               /\ company_location' = Strip(line.value)
               /\ UNCHANGED <<current_position, projects, current_project,
                              current_section, current_category>>
          ELSE IF line.kind = "position"
          THEN /\ current_position' = Strip(line.text)
               /\ UNCHANGED <<company_name, company_location, projects, current_project,
                              current_section, current_category>>
          ELSE IF line.kind = "project"
          THEN /\ projects' = SaveProject(projects, current_project)
               /\ current_project' = NewProject(line, current_position)
               /\ current_section' = <<>>
               /\ current_category' = <<>>
               /\ UNCHANGED <<company_name, company_location, current_position>>
          ELSE IF line.kind = "section"
          THEN /\ current_section' = line.text
               /\ current_category' = <<>>
               /\ UNCHANGED <<company_name, company_location, current_position,
                              projects, current_project>>
          ELSE IF line.kind = "bullet"
          THEN /\ current_category' = BulletCategory(line, current_section, current_category)
               /\ current_project' =
                    IF current_project # <<>>
                    THEN [current_project EXCEPT
                            !.responsibilities =
                                @ \o BulletItems(line, current_section).responsibilities,
                            !.achievements =
                                @ \o BulletItems(line, current_section).achievements]
                    ELSE current_project
               /\ UNCHANGED <<company_name, company_location, current_position,
                              projects, current_section>>
          ELSE IF line.kind = "tight" /\ line.indent
          THEN /\ current_project' =
                    IF current_project # <<>> /\ current_section = <<"Responsibilities">>
                    THEN [current_project EXCEPT
                            !.responsibilities = Append(@, El("sub", line.text, <<>>))]
                    ELSE current_project
               /\ UNCHANGED <<company_name, company_location, current_position,
                              projects, current_section, current_category>>
          ELSE UNCHANGED <<company_name, company_location, current_position, projects,
                           current_project, current_section, current_category>>
    /\ work_i' = work_i + 1
    /\ UNCHANGED <<work_lines, work_divs, work_pc>>
    /\ UNCHANGED notWork

\* lines 368-428: the last project is saved and the HTML built
WorkRender ==
    /\ work_pc = "loop"
    /\ work_i > Len(work_lines)
    /\ projects' = SaveProject(projects, current_project)
    /\ work_divs' = RenderWork(projects', company_name, company_location)
    /\ work_pc' = "done"
    /\ UNCHANGED <<work_lines, work_i, company_name, company_location, current_position,
                   current_project, current_section, current_category>>
    /\ UNCHANGED notWork

NextWork == WorkStep \/ WorkRender

-----------------------------------------------------------------------------
(* build_sidebar_cv.build_education.  A line of the section body is        *)
(* modelled by its shape:                                                  *)
(*   "subsection"   @subsection id text                                    *)
(*   "degree"       <b>text</b> | <em>value</em>                           *)
(*   "degree_fill"  <b>text</b> @fill <em>value</em>                       *)
(*   "gpa"          GPA: value                                             *)
(*   "text"         any other text                                         *)
(*   "blank", "rule"                                                       *)
(* Every "subsection" line of the model has a text after its identifier.   *)

EduLatexLine(kind, txt, value) == [kind |-> kind, text |-> txt, value |-> value]

\* the stripped text of a line
LineTokens(ln) ==
    IF ln.kind = "degree"
    THEN <<"<b>">> \o ln.text \o <<"</b>", " ", "|", " ", "<em>">> \o ln.value \o <<"</em>">>
    ELSE IF ln.kind = "degree_fill"
    THEN <<"<b>">> \o ln.text \o <<"</b>", " ", "@fill", " ", "<em>">> \o ln.value \o <<"</em>">>
    ELSE IF ln.kind = "gpa" THEN <<"GPA:", " ">> \o ln.value
    ELSE Strip(ln.text)

\* re.split(r'@subsection\s+\w+\s+', raw): the lines of the parts; the text
\* that follows the identifier of a @subsection line is the first line of
\* its part
RECURSIVE SplitParts(_, _, _)
SplitParts(ls, done, current) ==
    IF ls = <<>> THEN Append(done, current)
    ELSE IF Head(ls).kind = "subsection"
    THEN SplitParts(Tail(ls), Append(done, current),
                    <<EduLatexLine("text", Head(ls).text, <<>>)>>)
    ELSE SplitParts(Tail(ls), done, Append(current, Head(ls)))

\* line 275: the stripped lines of a part that are neither blank nor a rule
RECURSIVE KeptLines(_)
KeptLines(ls) ==
    IF ls = <<>> THEN <<>>
    ELSE (IF Head(ls).kind \in {"blank", "rule"} \/ LineTokens(Head(ls)) = <<>>
          THEN <<>> ELSE <<Head(ls)>>)
         \o KeptLines(Tail(ls))

\* lines 283-287: the last line of ls that holds <b> and <em>, <<>> if none
DegreeLine(ls) ==
    LET ds == {i \in 1..Len(ls) : ls[i].kind \in {"degree", "degree_fill"}}
    IN IF ds = {} THEN <<>> ELSE <<ls[CHOOSE i \in ds : \A j \in ds : j <= i]>>

\* the last line of ls that starts with "GPA:", '' if none
GpaLine(ls) ==
    LET gs == {i \in 1..Len(ls) : ls[i].kind = "gpa"}
    IN IF gs = {} THEN <<>> ELSE LineTokens(ls[CHOOSE i \in gs : \A j \in gs : j <= i])

\* lines 274-293: the entries of one part
PartEntries(part) ==
    LET lines == KeptLines(part)
    IN IF lines = <<>> THEN <<>>
       ELSE IF DegreeLine(Tail(lines)) # <<>> /\ DegreeLine(Tail(lines))[1].kind = "degree"
       THEN <<[university |-> escape_latex(LineTokens(Head(lines))),
               degree |-> escape_latex(Strip(DegreeLine(Tail(lines))[1].text)),
               dates |-> escape_latex(Strip(DegreeLine(Tail(lines))[1].value)),
               gpa |-> escape_latex(GpaLine(Tail(lines)))]>>
       ELSE <<>>

RECURSIVE AllEntries(_)
AllEntries(ps) ==
    IF ps = <<>> THEN <<>>
    ELSE PartEntries(Head(ps)) \o AllEntries(Tail(ps))

\* build_sidebar_cv.build_education
build_education_latex(ls) == AllEntries(SplitParts(ls, <<>>, <<>>))

EduLatexLines ==
    {EduLatexLine("subsection", <<"Uni", " ", "A">>, <<>>),
     EduLatexLine("degree", <<"BSc">>, <<"2", "0", "2", "0">>),
     EduLatexLine("degree_fill", <<"MSc">>, <<"2", "0", "2", "2">>),
     EduLatexLine("gpa", <<>>, <<"3", ".", "5">>),
     EduLatexLine("text", <<"note", "_", "1">>, <<>>),
     EduLatexLine("text", <<"-", " ", "GPA:", " ", "3">>, <<>>),
     EduLatexLine("blank", <<>>, <<>>),
     EduLatexLine("rule", <<>>, <<>>)}

EduLatexIdle ==
    /\ edul_lines = <<>>
    /\ edul_entries = <<>>
    /\ edul_pc = "idle"

InitEduLatex ==
    /\ edul_lines \in SeqsUpTo(EduLatexLines, MaxEduLatexLines)
    /\ edul_entries = <<>>
    /\ edul_pc = "start"

BuildEducationLatex ==
    /\ edul_pc = "start"
    /\ edul_entries' = build_education_latex(edul_lines)
    /\ edul_pc' = "done"
    /\ UNCHANGED edul_lines
    /\ UNCHANGED notEduLatex

NextEduLatex == BuildEducationLatex

-----------------------------------------------------------------------------
(* Specifications: one per script entry point or pure function *)

SpecHtmlInit ==
    InitHtml /\ BuildIdle /\ ExtractIdle /\ ContactIdle /\ SplitIdle /\
    SkillsIdle /\ EduIdle /\ ListsIdle /\ ExpIdle /\ WorkIdle /\ EduLatexIdle

SpecHtml == SpecHtmlInit /\ [][NextHtml]_vars

SpecBuildInit ==
    InitBuild /\ HtmlIdle /\ ExtractIdle /\ ContactIdle /\ SplitIdle /\
    SkillsIdle /\ EduIdle /\ ListsIdle /\ ExpIdle /\ WorkIdle /\ EduLatexIdle

SpecBuild == SpecBuildInit /\ [][NextBuild]_vars

SpecExtractInit ==
    InitExtract /\ HtmlIdle /\ BuildIdle /\ ContactIdle /\ SplitIdle /\
    SkillsIdle /\ EduIdle /\ ListsIdle /\ ExpIdle /\ WorkIdle /\ EduLatexIdle

SpecExtract == SpecExtractInit /\ [][NextExtract]_vars

SpecContactInit ==
    InitContact /\ HtmlIdle /\ BuildIdle /\ ExtractIdle /\ SplitIdle /\
    SkillsIdle /\ EduIdle /\ ListsIdle /\ ExpIdle /\ WorkIdle /\ EduLatexIdle

SpecContact == SpecContactInit /\ [][NextContact]_vars

SpecSplitInit ==
    InitSplit /\ HtmlIdle /\ BuildIdle /\ ExtractIdle /\ ContactIdle /\
    SkillsIdle /\ EduIdle /\ ListsIdle /\ ExpIdle /\ WorkIdle /\ EduLatexIdle

SpecSplit == SpecSplitInit /\ [][NextSplit]_vars

SpecSkillsInit ==
    InitSkills /\ HtmlIdle /\ BuildIdle /\ ExtractIdle /\ ContactIdle /\
    SplitIdle /\ EduIdle /\ ListsIdle /\ ExpIdle /\ WorkIdle /\ EduLatexIdle

SpecSkills == SpecSkillsInit /\ [][NextSkills]_vars

SpecEduInit ==
    InitEdu /\ HtmlIdle /\ BuildIdle /\ ExtractIdle /\ ContactIdle /\
    SplitIdle /\ SkillsIdle /\ ListsIdle /\ ExpIdle /\ WorkIdle /\
    EduLatexIdle

SpecEdu == SpecEduInit /\ [][NextEdu]_vars

SpecListsInit ==
    InitLists /\ HtmlIdle /\ BuildIdle /\ ExtractIdle /\ ContactIdle /\
    SplitIdle /\ SkillsIdle /\ EduIdle /\ ExpIdle /\ WorkIdle /\ EduLatexIdle

SpecLists == SpecListsInit /\ [][NextLists]_vars

SpecExpInit ==
    InitExp /\ HtmlIdle /\ BuildIdle /\ ExtractIdle /\ ContactIdle /\
    SplitIdle /\ SkillsIdle /\ EduIdle /\ ListsIdle /\ WorkIdle /\
    EduLatexIdle

SpecExp == SpecExpInit /\ [][NextExp]_vars

SpecWorkInit ==
    InitWork /\ HtmlIdle /\ BuildIdle /\ ExtractIdle /\ ContactIdle /\
    SplitIdle /\ SkillsIdle /\ EduIdle /\ ListsIdle /\ ExpIdle /\ EduLatexIdle

SpecWork == SpecWorkInit /\ [][NextWork]_vars

SpecEduLatexInit ==
    InitEduLatex /\ HtmlIdle /\ BuildIdle /\ ExtractIdle /\ ContactIdle /\
    SplitIdle /\ SkillsIdle /\ EduIdle /\ ListsIdle /\ ExpIdle /\ WorkIdle

SpecEduLatex == SpecEduLatexInit /\ [][NextEduLatex]_vars

(* The builders on section bodies none of whose lines matches a pattern   *)
(* of the builder: a skill or language line without "<b>label</b>:", a     *)
(* certification line without list marker, an education or experience line *)
(* that is no header, no delimiter and no list item the builder reads.     *)

NonMatchingSkill(ln) == ~(ln.dash /\ ln.cat # <<>>)

NonMatchingLanguage(ln) == ~(ln.dash /\ ln.label # <<>>)

NonMatchingCertification(ln) == ~ln.dash

NonMatchingEdu(ln) ==
    \/ ln.kind \in {"blank", "rule", "other"}
    \/ ln.kind = "item" /\ ~IsGpa(ln.left)

NonMatchingWork(ln) ==
    \/ ln.kind \in {"blank", "rule", "other"}
    \/ ln.kind = "tight" /\ ~ln.indent

NonMatchingExp(ln) == ln.kind \in {"blank", "rule", "other"}

NonMatchingEduLatex(ln) == ln.kind \in {"text", "blank", "rule"}

AllLines(ls, P(_)) == \A i \in 1..Len(ls) : P(ls[i])

SpecNonMatchingInit ==
    \/ SpecSkillsInit /\ AllLines(skill_lines, NonMatchingSkill)
    \/ SpecListsInit /\ AllLines(list_lines, NonMatchingLanguage)
    \/ SpecEduInit /\ AllLines(edu_lines, NonMatchingEdu)
    \/ SpecWorkInit /\ AllLines(work_lines, NonMatchingWork)
    \/ SpecExpInit /\ AllLines(exp_lines, NonMatchingExp)
    \/ SpecEduLatexInit /\ AllLines(edul_lines, NonMatchingEduLatex)

NextBuilders == NextSkills \/ NextLists \/ NextEdu \/ NextWork \/ NextExp \/ NextEduLatex

SpecNonMatching == SpecNonMatchingInit /\ [][NextBuilders]_vars

-----------------------------------------------------------------------------
(* Claims about update_html_from_dox.main and replace_block *)

\* C1: running the update again on its own output, with the same rendered
\* fragments, leaves exactly the HTML the first run wrote.
C1_RerunIsIdempotent ==
    (run >= 2 /\ pc = "done" /\ ret = 0) => html_file = prev_out

\* C2: when the marker pair of the section is matched, replace_block returns
\* the text before the start marker, the start marker, a newline, the
\* fragment character for character, a newline, the end marker, and the text
\* after that end marker, whatever the fragment holds.
C2_ReplacesRegionVerbatim ==
    [][(/\ pc = "sections"
        /\ k <= NumSections
        /\ present[k]
        /\ MatchStart(html, StartOf(k), EndOf(k)) # 0)
       => (/\ pc' = "sections"
           /\ html' = SubSeq(html, 1, MatchStart(html, StartOf(k), EndOf(k)) - 1)
                      \o <<StartOf(k), "\n">> \o frags[k] \o <<"\n", EndOf(k)>>
                      \o SubSeq(html, MatchEnd(html, StartOf(k), EndOf(k)) + 1,
                                Len(html)))]_vars

\* C3: a run in which some section's marker pair was not matched still
\* processes every remaining section, writes the file and exits with 0.
C3_MissingMarkersNotFatal ==
    (pc \in {"done", "raised"} /\ warned # {})
        => (/\ pc = "done"
            /\ ret = 0
            /\ k = NumSections + 1
            /\ html_file = html \o (IF EndsWithNewline(html) THEN <<>> ELSE <<"\n">>))

-----------------------------------------------------------------------------
(* Claims about build_sidebar_cv.main *)

BuildEnded == build_pc \in {"done", "raised"}

BothPassesOk ==
    /\ Len(returncodes) = 2
    /\ returncodes[1] = 0
    /\ returncodes[2] = 0

\* C4: pdflatex runs at most twice, the second time only after a first pass
\* that exited with 0; a run ends having written the output PDF with exit
\* status 0 exactly when both passes exited with 0 and cv.pdf exists, and
\* every other run writes no output PDF and ends with a non-zero status.
C4_TwoPassSuccessCriterion ==
    /\ Len(returncodes) <= 2
    /\ Len(returncodes) = 2 => returncodes[1] = 0
    /\ BuildEnded =>
        /\ (output_pdf = "written" /\ build_ret = 0) <=> (BothPassesOk /\ cv_pdf)
        /\ ~(BothPassesOk /\ cv_pdf) => (output_pdf # "written" /\ build_ret # 0)

C4_Witness ==
    /\ BuildEnded
    /\ BothPassesOk
    /\ cv_pdf
    /\ output_pdf = "written"
    /\ build_ret = 0

\* C5: no run of main() ends with the temporary directory still there.
C5_TmpdirRemoved == BuildEnded => tmpdir # "exists"

C5_Witness ==
    /\ build_pc = "done"
    /\ tmpdir = "removed"
    /\ Len(returncodes) = 2
    /\ returncodes[2] # 0

-----------------------------------------------------------------------------
(* Claims about extract_sections *)

LastHeaderOfItsName(t, i) ==
    /\ t[i] \in HeaderLines
    /\ \A j \in (i + 1)..Len(t) : t[j] # t[i]

\* where the body of the header at line i ends: before the next header or
\* closing token, or with the document
BodyOf(t, i) ==
    SubSeq(t, i + 1, IF BodyEnd(t, i) # 0 THEN BodyEnd(t, i) - 1 ELSE Len(t))

\* C6: every section whose header line is in the document has its key in the
\* mapping extract_sections returns, with the trimmed text from the end of
\* that header line up to the next header or the end of the document, the
\* last section included whether or not a closing token follows it.
C6_EverySectionCaptured ==
    extract_pc = "done" =>
        \A i \in 1..Len(text) :
            LastHeaderOfItsName(text, i) =>
                /\ NameOf(text[i]) \in DOMAIN sections_html
                /\ sections_html[NameOf(text[i])] = CleanHtml(BodyOf(text, i))
                /\ NameOf(text[i]) \in DOMAIN sections_pdf
                /\ sections_pdf[NameOf(text[i])] = CleanPdf(BodyOf(text, i))

-----------------------------------------------------------------------------
(* Claims about the contact builders *)

LocationLike(p) == ~p.at /\ ~p.linkedin /\ ~p.github /\ ~p.online_cv /\ ~p.phone

OneLocation(ps) == Cardinality({i \in 1..Len(ps) : LocationLike(ps[i])}) = 1

TheLocation(ps) == ps[CHOOSE i \in 1..Len(ps) : LocationLike(ps[i])]

\* C7: when the contact line holds exactly one location-like token, at any
\* position, the location item is the last item both renderers emit.
C7_LocationRendersLast ==
    (contact_pc = "done" /\ OneLocation(parts)) =>
        /\ items # <<>>
        /\ items[Len(items)] = [icon |-> "fa-map-marker-alt", text |-> TheLocation(parts)]
        /\ contact_lines # <<>>
        /\ contact_lines[Len(contact_lines)] =
                [icon |-> "map-marker-alt", text |-> TheLocation(parts)]

-----------------------------------------------------------------------------
(* Claims about the splitting of skill values *)

Count(v, c, n) == Cardinality({j \in 1..n : v[j] = c})

\* the number of parentheses open before character i
Depth(v, i) == Count(v, "(", i - 1) - Count(v, ")", i - 1)

Commas(v) == {i \in 1..Len(v) : v[i] = ","}

\* tags are the stripped, non-empty pieces of v split at every comma at
\* depth zero and at no comma inside an open parenthesis
SplitsAtDepthZero(v, tags) ==
    \E P \in SUBSET Commas(v) :
        /\ \A i \in Commas(v) : Depth(v, i) = 0 => i \in P
        /\ \A i \in Commas(v) : Depth(v, i) > 0 => i \notin P
        /\ tags = StripNonEmpty(Pieces(v, P, 1, <<>>))

ExampleTags == << <<"A", " ", "(", "x", ",", " ", "y", ")">>, <<"B">> >>

\* C8: in both skill builders a comma splits the value exactly when it lies
\* at parenthesis depth zero, never inside an open parenthesis at any
\* nesting depth; "A (x, y), B" gives exactly "A (x, y)" and "B".
C8_SplitRespectsParentheses ==
    split_pc = "done" =>
        /\ SplitsAtDepthZero(vals, html_tags)
        /\ SplitsAtDepthZero(vals, latex_tags)
        /\ vals = ExampleVals => (html_tags = ExampleTags /\ latex_tags = ExampleTags)

-----------------------------------------------------------------------------
(* Claims about build_skills *)

RECURSIVE MatchingLines(_)
MatchingLines(ls) ==
    IF ls = <<>> THEN <<>>
    ELSE (IF Head(ls).dash /\ Head(ls).cat # <<>> THEN <<Head(ls)>> ELSE <<>>)
         \o MatchingLines(Tail(ls))

\* the texts of tags occur in v one after the other, from character p on
RECURSIVE OccurInOrder(_, _, _)
OccurInOrder(tags, v, p) ==
    IF tags = <<>> THEN TRUE
    ELSE \E q \in p..(Len(v) - Len(Head(tags)) + 1) :
            /\ Head(tags) # <<>>
            /\ SubSeq(v, q, q + Len(Head(tags)) - 1) = Head(tags)
            /\ OccurInOrder(Tail(tags), v, q + Len(Head(tags)))

ExampleSkillTags == << <<"C++">>, <<"Python", " ", "(", "scripting", ")">> >>

\* C10: build_skills emits one category block per matching skill line, in
\* the order of the lines, each with its tags in the order of the source;
\* the single line "- <b>Languages</b>: C++, Python (scripting)" renders one
\* heading Languages with exactly the tags "C++" and "Python (scripting)".
C10_OneBlockPerSkillLine ==
    skills_pc = "done" =>
        LET M == MatchingLines(skill_lines)
        IN /\ Len(html_skills.blocks) = Len(M)
           /\ Len(latex_skills) = Len(M)
           /\ \A i \in 1..Len(M) :
                /\ html_skills.blocks[i].cat = Strip(M[i].cat)
                /\ OccurInOrder(html_skills.blocks[i].tags, M[i].vals, 1)
                /\ latex_skills[i].cat = escape_latex(Strip(M[i].cat))
                /\ OccurInOrder(latex_skills[i].tags, escape_latex(M[i].vals), 1)
           /\ skill_lines = <<ExampleSkillLine>> =>
                /\ html_skills.blocks[1].cat = <<"Languages">>
                /\ html_skills.blocks[1].tags = ExampleSkillTags
                /\ latex_skills[1].cat = <<"Languages">>
                /\ latex_skills[1].tags = ExampleSkillTags

C10_Witness ==
    /\ skills_pc = "done"
    /\ Len(skill_lines) = 2
    /\ skill_lines[1] = ExampleSkillLine
    /\ skill_lines[2].dash
    /\ skill_lines[2].cat = <<"Tools", " ", "&", " ", "Platforms">>
    /\ Len(html_skills.blocks) = 2
    /\ Len(latex_skills) = 2
    /\ Len(html_skills.blocks[2].tags) = 2
    /\ html_skills.blocks[1].tags = ExampleSkillTags

-----------------------------------------------------------------------------
(* Claims about build_education *)

AtPairLine ==
    /\ edu_pc = "loop"
    /\ edu_i <= Len(edu_lines)
    /\ edu_lines[edu_i].kind = "pair"

\* C9: a line <b>left</b> @fill <em>right</em> whose right field holds a
\* digit opens a degree and leaves the institution alone, whatever digits the
\* left field or other lines hold; one whose right field holds no digit sets
\* the institution and opens no degree.
C9_DigitInSecondFieldIsDegree ==
    [][AtPairLine =>
        IF HasDigit(edu_lines[edu_i].right)
        THEN /\ current_degree' = Strip(edu_lines[edu_i].left)
             /\ current_dates' = Strip(edu_lines[edu_i].right)
             /\ university_name' = university_name
             /\ university_location' = university_location
        ELSE /\ university_name' = Strip(edu_lines[edu_i].left)
             /\ university_location' = Strip(edu_lines[edu_i].right)
             /\ current_degree' = current_degree
             /\ current_dates' = current_dates
             /\ degrees' = degrees]_vars

C9_Witness ==
    /\ edu_pc = "done"
    /\ Len(edu_lines) = 3
    /\ edu_lines[1] = [kind |-> "pair", left |-> <<"Uni", " ", "7">>, right |-> <<"City">>]
    /\ edu_lines[2] = [kind |-> "pair", left |-> <<"Uni", " ", "7">>, right |-> <<"District", " ", "7">>]
    /\ edu_lines[3] = [kind |-> "pair", left |-> <<"BSc", " ">>, right |-> <<"2", "0", "2", "4">>]
    /\ university_name = <<"Uni", " ", "7">>
    /\ university_location = <<"City">>
    /\ Len(degrees) = 2
    /\ degrees[1].degree = <<"Uni", " ", "7">>
    /\ degrees[2].degree = <<"BSc">>

\* the priority of the contact kinds as the specification words it
ClaimedKind(p) ==
    IF p.at THEN "email"
    ELSE IF p.linkedin THEN "linkedin"
    ELSE IF p.github THEN "github"
    ELSE IF p.phone THEN "phone"
    ELSE "location"

HtmlIconOf ==
    [email |-> "fa-envelope-square", linkedin |-> "fa-linkedin", github |-> "fa-github",
     phone |-> "fa-phone-square", location |-> "fa-map-marker-alt"]

LatexIconOf ==
    [email |-> "envelope", linkedin |-> "linkedin", github |-> "github",
     phone |-> "phone", location |-> "map-marker-alt"]

\* C12: both contact builders give every token exactly one of the five kinds,
\* by the priority email, LinkedIn, GitHub, phone, location, and render exactly
\* one item per token: no token is dropped.
C12_OneItemPerTokenByPriority ==
    contact_pc = "done" =>
        /\ Len(items) = Len(parts)
        /\ \A i \in 1..Len(parts) :
              \E j \in 1..Len(items) :
                  items[j] = [icon |-> HtmlIconOf[ClaimedKind(parts[i])], text |-> parts[i]]
        /\ Len(contact_lines) = Len(parts)
        /\ \A i \in 1..Len(parts) :
              contact_lines[i] =
                  [icon |-> LatexIconOf[ClaimedKind(parts[i])], text |-> parts[i]]

-----------------------------------------------------------------------------
(* Claims about the GPA items of build_education *)

DegreeLineAt(ls, i) == ls[i].kind = "pair" /\ HasDigit(ls[i].right)

GpaItemAt(ls, i) == ls[i].kind = "item" /\ ls[i].left # <<>> /\ Head(ls[i].left) = "GPA:"

\* the degree lines whose degree is rendered: their title is not empty
RenderedDegreeLines(ls) == {i \in 1..Len(ls) : DegreeLineAt(ls, i) /\ Strip(ls[i].left) # <<>>}

\* the line that ends the span of the degree line p
SpanEnd(ls, p) ==
    LET later == {q \in (p + 1)..Len(ls) : DegreeLineAt(ls, q)}
    IN IF later = {} THEN Len(ls) + 1 ELSE CHOOSE q \in later : \A r \in later : q <= r

SpanGpas(ls, p) == {i \in (p + 1)..(SpanEnd(ls, p) - 1) : GpaItemAt(ls, i)}

ExpectedGpa(ls, p) ==
    IF SpanGpas(ls, p) = {} THEN <<>>
    ELSE ls[CHOOSE i \in SpanGpas(ls, p) : \A j \in SpanGpas(ls, p) : j <= i].left

\* the degree line of the j-th rendered degree
DegreeLineOf(ls, j) ==
    CHOOSE p \in RenderedDegreeLines(ls) :
        Cardinality({q \in RenderedDegreeLines(ls) : q <= p}) = j

\* C14: every rendered degree carries the last "GPA:" item between its own
\* degree line and the next degree line, and none when that span holds no GPA
\* item; a GPA item before the first degree line attaches to no degree.
C14_GpaAttachesToOpenDegree ==
    edu_pc = "done" =>
        /\ Len(degrees) = Cardinality(RenderedDegreeLines(edu_lines))
        /\ \A j \in 1..Len(degrees) :
              /\ degrees[j].degree = Strip(edu_lines[DegreeLineOf(edu_lines, j)].left)
              /\ degrees[j].gpa = ExpectedGpa(edu_lines, DegreeLineOf(edu_lines, j))

C14_Witness ==
    /\ edu_pc = "done"
    /\ Len(edu_lines) = 3
    /\ edu_lines[1] = [kind |-> "pair", left |-> <<"BSc", " ">>, right |-> <<"2", "0", "2", "4">>]
    /\ edu_lines[2] = [kind |-> "item", left |-> <<"GPA:", " ", "3">>, right |-> <<>>]
    /\ edu_lines[3] = [kind |-> "item", left |-> <<"GPA:", " ", "4">>, right |-> <<>>]
    /\ degrees = <<[degree |-> <<"BSc">>, dates |-> <<"2", "0", "2", "4">>,
                    gpa |-> <<"GPA:", " ", "4">>]>>
    /\ edu_html = <<[h4 |-> <<<<>>, <<>>>>, entries |-> degrees]>>

-----------------------------------------------------------------------------
(* Claims about build_languages *)

\* C16: in both scripts every list-item line of the languages section gives
\* exactly one rendered item: a "label : level" line renders its label and
\* level, any other list-item line renders its text verbatim and is not
\* dropped.
C16_EveryLanguageLineRendered ==
    lang_pc = "done" =>
        LET d == DashLines(list_lines)
        IN /\ Len(html_languages.items) = Len(d)
           /\ Len(latex_languages) = Len(d)
           /\ \A i \in 1..Len(d) :
                 IF d[i].label # <<>>
                 THEN /\ html_languages.items[i].lang = Strip(d[i].label)
                      /\ html_languages.items[i].level = Strip(d[i].text)
                      /\ latex_languages[i].lang = escape_latex(Strip(d[i].label))
                      /\ latex_languages[i].level = escape_latex(Strip(d[i].text))
                 ELSE /\ html_languages.items[i].verbatim = Strip(d[i].text)
                      /\ latex_languages[i].verbatim = escape_latex(Strip(d[i].text))

\* the update_html_from_dox.py half of C16
HtmlLanguageLinesRendered ==
    lang_pc = "done" =>
        LET d == DashLines(list_lines)
        IN /\ Len(html_languages.items) = Len(d)
           /\ \A i \in 1..Len(d) :
                 IF d[i].label # <<>>
                 THEN /\ html_languages.items[i].lang = Strip(d[i].label)
                      /\ html_languages.items[i].level = Strip(d[i].text)
                 ELSE html_languages.items[i].verbatim = Strip(d[i].text)

-----------------------------------------------------------------------------
(* Claims about build_sidebar_cv.build_experience *)

Contains(t, sub) ==
    \E i \in 1..(Len(t) - Len(sub) + 1) : SubSeq(t, i, i + Len(sub) - 1) = sub

\* the texts X of the <b>X</b> runs of t
BoldRuns(t) ==
    {SubSeq(t, i + 1, FirstMarkup(t, i + 1) - 1) :
        i \in {j \in 1..Len(t) : /\ t[j] = "<b>"
                                 /\ FirstMarkup(t, j + 1) > j + 1
                                 /\ t[FirstMarkup(t, j + 1)] = "</b>"}}

\* the bullets and nested bullets of the positions, category bullets aside
PlainBullets(ls) ==
    {i \in 1..Len(ls) : /\ ls[i].kind = "item"
                        /\ ~CatMatch(Strip(ls[i].text))
                        /\ \E p \in PositionLines(ls) : p < i}

RenderedItems(entries) ==
    {entries[e].content[n].text :
        <<e, n>> \in {<<e, n>> \in (1..Len(entries)) \X (1..(2 * MaxExpLines + 2)) :
                        /\ n <= Len(entries[e].content)
                        /\ entries[e].content[n].kind = "item"}}

\* C15: every bullet and nested bullet of a position that holds <b>X</b> is
\* rendered as an \item that holds \textbf{X}, the braces of the macro not
\* escaped.
C15_BoldBecomesTextbf ==
    exp_pc = "done" =>
        \A i \in PlainBullets(exp_lines) :
            \A X \in BoldRuns(exp_lines[i].text) :
                \E r \in RenderedItems(exp_entries) :
                    Contains(r, <<"\\textbf", "{">> \o escape_latex(X) \o <<"}">>)

-----------------------------------------------------------------------------
(* Claims about update_html_from_dox.build_work *)

\* the number of elements with this tag among the first n of a <div>
TagCount(div, tag, n) == Cardinality({m \in 1..n : div[m].tag = tag})

\* the number of lists open after the first n elements of a <div>
OpenLists(div, n) == TagCount(div, "ul", n) - TagCount(div, "/ul", n)

WellNested(div) ==
    /\ \A n \in 1..Len(div) :
          /\ OpenLists(div, n) \in {0, 1}
          /\ div[n].tag = "li" => OpenLists(div, n - 1) = 1
    /\ OpenLists(div, Len(div)) = 0

\* C17: in every <div> that build_work renders, every <ul> is closed by one
\* </ul> before the </div>, no list is nested or left open, and every <li> is
\* emitted while a list is open.
C17_ListsWellNested ==
    work_pc = "done" => \A d \in 1..Len(work_divs) : WellNested(work_divs[d])

\* the n-th element of a set of line numbers
NthOf(S, n) == CHOOSE x \in S : Cardinality({y \in S : y <= x}) = n

ProjectLineSet(ls) == {i \in 1..Len(ls) : ls[i].kind = "project"}

\* the line after the last line of the project that starts at p
ProjectEnd(ls, p) ==
    LET later == {q \in ProjectLineSet(ls) : q > p}
    IN IF later = {} THEN Len(ls) + 1 ELSE CHOOSE q \in later : \A r \in later : q <= r

\* the last section boundary before line i of the project that starts at p:
\* a Responsibilities or Achievements label, or the project line itself
LastBoundary(ls, p, i) ==
    LET bs == {j \in p..(i - 1) : ls[j].kind \in {"section", "project"}}
    IN CHOOSE j \in bs : \A m \in bs : m <= j

InResponsibilities(ls, p, i) ==
    /\ ls[LastBoundary(ls, p, i)].kind = "section"
    /\ ls[LastBoundary(ls, p, i)].text = <<"Responsibilities">>

CategoryBullet(ln) == ln.kind = "bullet" /\ ln.form \in {"category_colon", "category"}

PlainOrNestedBullet(ln) ==
    \/ ln.kind = "bullet" /\ ln.form = "plain"
    \/ ln.kind = "tight" /\ ln.indent

\* the category a bullet belongs to: the last category bullet since the last
\* section boundary, <<>> when there is none
GroupOf(ls, p, i) ==
    LET cs == {j \in (LastBoundary(ls, p, i) + 1)..(i - 1) : CategoryBullet(ls[j])}
    IN IF cs = {} THEN <<>>
       ELSE Strip(ls[CHOOSE j \in cs : \A m \in cs : m <= j].text)

ResponsibilityBullets(ls, p) ==
    {i \in (p + 1)..(ProjectEnd(ls, p) - 1) :
        PlainOrNestedBullet(ls[i]) /\ InResponsibilities(ls, p, i)}

ExpectedGroups(ls, p) ==
    [n \in 1..Cardinality(ResponsibilityBullets(ls, p)) |->
        [text |-> Strip(ls[NthOf(ResponsibilityBullets(ls, p), n)].text),
         group |-> GroupOf(ls, p, NthOf(ResponsibilityBullets(ls, p), n))]]

\* the <li> of the Responsibilities part of a rendered <div>
ResponsibilityItems(div) ==
    {n \in 1..Len(div) :
        /\ div[n].tag = "li"
        /\ \A m \in 1..n : ~(div[m].tag = "p_label" /\ div[m].text = <<"Achievements">>)}

\* the category paragraph whose list holds the element n, <<>> when none
RenderedGroup(div, n) ==
    LET cs == {m \in 1..n : div[m].tag = "p_category"}
    IN IF cs = {} THEN <<>> ELSE div[CHOOSE m \in cs : \A j \in cs : j <= m].text

RenderedGroups(div) ==
    [n \in 1..Cardinality(ResponsibilityItems(div)) |->
        [text |-> div[NthOf(ResponsibilityItems(div), n)].text,
         group |-> RenderedGroup(div, NthOf(ResponsibilityItems(div), n))]]

\* C13: every plain or nested bullet of the Responsibilities of a project is
\* rendered in the list of the last category bullet seen since the last
\* section boundary (a Responsibilities or Achievements label, or the project
\* line), and under no category when there is none: a bullet after a boundary
\* is never rendered under a category opened before it.
C13_BulletsGroupedByCategory ==
    (work_pc = "done" /\ ProjectLineSet(work_lines) # {}) =>
        /\ Len(work_divs) = Cardinality(ProjectLineSet(work_lines))
        /\ \A n \in 1..Len(work_divs) :
              RenderedGroups(work_divs[n]) =
                  ExpectedGroups(work_lines, NthOf(ProjectLineSet(work_lines), n))

\* the last line of this kind before line p, 0 when there is none
LastBefore(ls, kind, p) ==
    LET hs == {j \in 1..(p - 1) : ls[j].kind = kind}
    IN IF hs = {} THEN 0 ELSE CHOOSE j \in hs : \A m \in hs : m <= j

\* the element with this tag of a <div>
ElementOf(div, tag) == div[CHOOSE m \in 1..Len(div) : div[m].tag = tag]

HasElement(div, tag) == \E m \in 1..Len(div) : div[m].tag = tag

\* the company header a <div> is rendered under: its own, or the one of the
\* last <div> before it that has one
HeaderAbove(divs, n) ==
    LET hs == {m \in 1..n : HasElement(divs[m], "h4")}
    IN ElementOf(divs[CHOOSE m \in hs : \A j \in hs : j <= m], "h4")

\* C18: every project is rendered under the company (name and location) and
\* with the position whose header lines most recently preceded its project
\* line; headers that come after a project do not change its rendering.
C18_ProjectUnderItsOwnCompany ==
    (work_pc = "done" /\ ProjectLineSet(work_lines) # {}) =>
        /\ Len(work_divs) = Cardinality(ProjectLineSet(work_lines))
        /\ \A n \in 1..Len(work_divs) :
              LET p == NthOf(ProjectLineSet(work_lines), n)
                  c == LastBefore(work_lines, "company", p)
                  t == LastBefore(work_lines, "position", p)
              IN /\ \E m \in 1..n : HasElement(work_divs[m], "h4")
                 /\ HeaderAbove(work_divs, n).text =
                        (IF c = 0 THEN <<>> ELSE Strip(work_lines[c].text))
                 /\ HeaderAbove(work_divs, n).more =
                        (IF c = 0 THEN <<>> ELSE Strip(work_lines[c].value))
                 /\ ElementOf(work_divs[n], "position_time").text =
                        (IF t = 0 THEN <<>> ELSE Strip(work_lines[t].text))
                 /\ ElementOf(work_divs[n], "position_time").more =
                        Strip(work_lines[p].value)

\* the part of C18 about positions
ProjectKeepsItsPosition ==
    (work_pc = "done" /\ ProjectLineSet(work_lines) # {}) =>
        /\ Len(work_divs) = Cardinality(ProjectLineSet(work_lines))
        /\ \A n \in 1..Len(work_divs) :
              LET p == NthOf(ProjectLineSet(work_lines), n)
                  t == LastBefore(work_lines, "position", p)
              IN /\ ElementOf(work_divs[n], "position_time").text =
                        (IF t = 0 THEN <<>> ELSE Strip(work_lines[t].text))
                 /\ ElementOf(work_divs[n], "position_time").more =
                        Strip(work_lines[p].value)

-----------------------------------------------------------------------------
(* Claims about the builders on bodies of non-matching lines *)

NothingParsed == << <<El("div mb-3", <<"No work experience parsed.">>, <<>>)>> >>

\* what the builders other than the HTML build_skills and build_languages
\* return for a body of non-matching lines: the empty string or the fixed
\* fragment that says nothing is listed
OthersRenderNothing ==
    /\ (cert_pc = "done" /\ AllLines(list_lines, NonMatchingCertification)) =>
          /\ html_certifications = [items |-> <<>>, placeholder |-> TRUE]
          /\ latex_certifications = <<>>
    /\ (edu_pc = "done" /\ AllLines(edu_lines, NonMatchingEdu)) =>
          /\ degrees = <<>>
          /\ edu_html = <<"No education info">>
    /\ (work_pc = "done" /\ AllLines(work_lines, NonMatchingWork)) =>
          /\ projects = <<>>
          /\ work_divs = NothingParsed
    /\ (exp_pc = "done" /\ AllLines(exp_lines, NonMatchingExp)) => exp_entries = <<>>
    /\ (edul_pc = "done" /\ AllLines(edul_lines, NonMatchingEduLatex)) => edul_entries = <<>>

\* C11 (as stated): for a body of lines that match none of its patterns every
\* builder of both scripts returns an empty but valid fragment that holds
\* nothing built from those lines.
C11_NonMatchingBodyRendersEmpty ==
    /\ OthersRenderNothing
    /\ (skills_pc = "done" /\ AllLines(skill_lines, NonMatchingSkill)) =>
          /\ html_skills.blocks = <<>>
          /\ html_skills.raw_fallback => skill_lines = <<>>
          /\ latex_skills = <<>>
    /\ (lang_pc = "done" /\ AllLines(list_lines, NonMatchingLanguage)) =>
          /\ html_languages.items = <<>>
          /\ latex_languages = <<>>

\* C11 (amended): for a body of lines that match none of its patterns every
\* builder returns a valid fragment without skill block, labelled language,
\* certification, degree or project: the LaTeX builders the empty string, the
\* HTML builders their fixed fragment, except that the HTML build_skills
\* returns the raw body in one fallback element and the HTML build_languages
\* one verbatim item per list-item line.
C11_NonMatchingBodyRendersNoRecord ==
    /\ OthersRenderNothing
    /\ (skills_pc = "done" /\ AllLines(skill_lines, NonMatchingSkill)) =>
          /\ html_skills = [blocks |-> <<>>, raw_fallback |-> TRUE]
          /\ latex_skills = <<>>
    /\ (lang_pc = "done" /\ AllLines(list_lines, NonMatchingLanguage)) =>
          /\ latex_languages = <<>>
          /\ Len(html_languages.items) = Len(DashLines(list_lines))
          /\ html_languages.placeholder = (DashLines(list_lines) = <<>>)
          /\ \A i \in 1..Len(html_languages.items) :
                html_languages.items[i] =
                    [lang |-> <<>>, level |-> <<>>,
                     verbatim |-> Strip(DashLines(list_lines)[i].text)]

C11_Witness ==
    /\ skills_pc = "done"
    /\ skill_lines = <<[dash |-> TRUE, cat |-> <<>>, vals |-> <<"a">>],
                       [dash |-> FALSE, cat |-> <<"Languages">>, vals |-> <<"a">>]>>
    /\ html_skills = [blocks |-> <<>>, raw_fallback |-> TRUE]
    /\ latex_skills = <<>>

====
